---- MODULE Spec2Model ----
(***************************************************************************)
(* Travel itinerary planner: the chat engine (services/chat.ts), the AI    *)
(* responder (ai-service), the checklist model (types/checklist), the      *)
(* rule-based parser (nlp-parser.ts), the storage tiers                    *)
(* (raindrop-integration.ts) and the HTTP boundary (handlers/chat-handler).*)
(*                                                                         *)
(* The repository holds two builds of the responder and of the             *)
(* completeness function: the TypeScript sources (src/src) and the         *)
(* compiled JavaScript (dist, src/unnamed/part_002 and the second half of  *)
(* src/dist/src/ai-service.d.ts).  The variable `build` says which one a    *)
(* behaviour runs; it never changes.                                       *)
(*                                                                         *)
(* JavaScript values are records tagged by type; an object is a function   *)
(* from its own keys to values.  Confidence, a real in [0,1] in the code,  *)
(* is kept in hundredths (0.7 is 70).  Timestamps are left out.            *)
(***************************************************************************)
EXTENDS Integers, Sequences, FiniteSets, TLC

VARIABLES
  build,          \* which build of ai-service / checklist runs: "src" (the
                  \* TypeScript sources), "dist" (the compiled responder and
                  \* the critical-field checklist module) or "js" (the
                  \* compiled responder and dist/src/types/checklist.js)
  raindropContext,\* raindrop-integration.ts:18, TRUE when the bindings are injected
  kv,             \* kv_session_cache: sessionId -> JSON copy of a session
  sessionStore,   \* chat.ts sessionStore: Map sessionId -> session object
  smartMemory,    \* smartmemory_session: sessionId -> saved context object
  last,           \* what the last request did and answered (observation)
  track,          \* per session id: the chat turns answered since its last reset
  steps,          \* number of requests and restarts so far
  faults,         \* number of failed storage writes so far
  turns,          \* the chat calls in progress, each with its position
  writes          \* the storage writes issued and not yet completed

vars == <<build, raindropContext, kv, sessionStore, smartMemory, last, track,
          steps, faults, turns, writes>>

----------------------------------------------------------------------------
(* Bounds of the model *)

MaxSteps == 3
MaxFaults == 1

----------------------------------------------------------------------------
(* JavaScript values *)

Null == [t |-> "null"]
Undefined == [t |-> "undefined"]
Str(s) == [t |-> "str", s |-> s]
Num(n) == [t |-> "num", n |-> n]
Arr(a) == [t |-> "arr", a |-> a]
Obj(o) == [t |-> "obj", o |-> o]

\* v !== null && v !== undefined
NotNullish(v) == v.t \notin {"null", "undefined"}

\* JavaScript truthiness: null, undefined, 0 and '' are falsy, [] and {} truthy
Truthy(v) ==
  CASE v.t = "null" -> FALSE
    [] v.t = "undefined" -> FALSE
    [] v.t = "str" -> v.s # ""
    [] v.t = "num" -> v.n # 0
    [] OTHER -> TRUE

\* obj[key]: undefined when obj has no own key `key`
Get(obj, key) == IF key \in DOMAIN obj THEN obj[key] ELSE Undefined

\* obj[key] = value
Put(obj, key, value) ==
  [k \in (DOMAIN obj) \cup {key} |-> IF k = key THEN value ELSE obj[k]]

EmptyObject == [k \in {} |-> Null]

\* Math.round(num / den) for den > 0: halves round towards +infinity
Round(num, den) == (2 * num + den) \div (2 * den)

----------------------------------------------------------------------------
(* types/checklist.ts *)

CHECKLIST_FIELDS ==
  << "startDate", "endDate", "travelDays", "totalBudget", "startingCity",
     "tripTheme", "groupType", "transportMode", "stayPreference",
     "adventureLevel", "foodPreference", "comfortLevel", "schedulePreference",
     "weatherPreference", "safetyNeeds", "specialRequirements", "avoidPlaces",
     "visitedPlaces" >>

CRITICAL_FIELDS ==
  << "startDate", "endDate", "travelDays", "totalBudget", "startingCity",
     "groupType", "stayPreference", "schedulePreference" >>

PRIORITY_QUESTIONS ==
  << "startingCity", "totalBudget", "groupType", "tripTheme", "startDate",
     "travelDays", "transportMode", "stayPreference", "adventureLevel",
     "foodPreference", "schedulePreference", "comfortLevel",
     "weatherPreference", "safetyNeeds", "specialRequirements", "avoidPlaces",
     "visitedPlaces" >>

Range(seq) == {seq[i] : i \in 1..Len(seq)}

createEmptyChecklist == [k \in Range(CHECKLIST_FIELDS) |-> Null]

\* the filter of checklist.ts:347-349 on one value
Filled(v) ==
  /\ NotNullish(v)
  /\ ~(v.t = "str" /\ v.s = "")
  /\ ~(v.t = "arr" /\ v.a = <<>>)

\* checklist.ts:346-351: every own value of the object is counted
calculateCompletenessAll(checklist) ==
  LET filled == Cardinality({k \in DOMAIN checklist : Filled(checklist[k])})
  IN  Round(filled * 100, Len(CHECKLIST_FIELDS))

\* the filter of the compiled critical-field variant on one value
FilledCritical(v) == NotNullish(v) /\ ~(v.t = "str" /\ v.s = "")

\* dist build: only the critical fields are counted
calculateCompletenessCritical(checklist) ==
  LET criticalFilled ==
        Cardinality({i \in 1..Len(CRITICAL_FIELDS) :
                       FilledCritical(Get(checklist, CRITICAL_FIELDS[i]))})
  IN  Round(criticalFilled * 100, Len(CRITICAL_FIELDS))

calculateCompleteness(b, checklist) ==
  IF b = "dist" THEN calculateCompletenessCritical(checklist)
  ELSE calculateCompletenessAll(checklist)

\* the union types of checklist.ts:6-14, by field
Enumeration(field) ==
  CASE field = "groupType" -> {"solo", "couple", "family", "team"}
    [] field = "tripTheme" ->
         {"adventure", "relaxed", "foodie", "cultural", "beach", "mountain"}
    [] field = "transportMode" ->
         {"car", "train", "bus", "flight", "bike", "walk", "cycling"}
    [] field = "stayPreference" ->
         {"budget", "midrange", "luxury", "homestay", "hostel"}
    [] field = "adventureLevel" -> {"low", "moderate", "high"}
    [] field = "foodPreference" ->
         {"vegetarian", "vegan", "non-vegetarian", "any"}
    [] field = "comfortLevel" -> {"budget", "standard", "premium"}
    [] field = "schedulePreference" ->
         {"relaxed", "busy", "flexible", "packed"}
    [] field = "weatherPreference" ->
         {"cold", "hot", "rainy", "monsoon", "sunny", "mild"}
    [] OTHER -> {}

----------------------------------------------------------------------------
(* Calendar dates: <<year, month, day>>; the clock of the process *)

Today == <<2026, 11, 3>>
TodayWeekday == 2     \* Date.getDay() of Today: 0 is Sunday, 2 is Tuesday

Pad2(n) == IF n < 10 THEN "0" \o ToString(n) ELSE ToString(n)

\* `${year}-${month}-${day}` with month and day padded to two digits
IsoString(y, m, d) == ToString(y) \o "-" \o Pad2(m) \o "-" \o Pad2(d)

DaysInMonth(y, m) ==
  IF m \in {4, 6, 9, 11} THEN 30
  ELSE IF m = 2
       THEN (IF (y % 4 = 0 /\ y % 100 # 0) \/ y % 400 = 0 THEN 29 ELSE 28)
       ELSE 31

\* date.setDate(date.getDate() + n) for n >= 0
RECURSIVE AddDays(_, _)
AddDays(date, n) ==
  IF n = 0 THEN date
  ELSE IF date[3] < DaysInMonth(date[1], date[2])
       THEN AddDays(<<date[1], date[2], date[3] + 1>>, n - 1)
       ELSE IF date[2] < 12
            THEN AddDays(<<date[1], date[2] + 1, 1>>, n - 1)
            ELSE AddDays(<<date[1] + 1, 1, 1>>, n - 1)

\* date.toISOString().split('T')[0]
DateString(date) == IsoString(date[1], date[2], date[3])

----------------------------------------------------------------------------
(* nlp-parser.ts.  A message is its text together with the lexical facts   *)
(* the parser reads off it: kw, the table keywords that occur in the       *)
(* lower-cased text; re, the regular expressions that match it; and the    *)
(* captures of the numeric and clause patterns (<<>> when no match).       *)

MsgBudget ==
  [ text |-> "I have a budget of 15k",
    kw |-> {"budget"},
    re |-> {},
    range |-> <<>>,
    day |-> <<15>>,
    iso |-> <<>>,
    isoRange |-> <<>>,
    inDays |-> <<>>,
    weekdayName |-> <<>>,
    daysMatch |-> <<>>,
    budgetMatch |-> << <<15>>, <<15>>, <<>>, <<>> >>,
    unit |-> {"k"},
    safety |-> <<>>,
    special |-> <<>>,
    avoid |-> <<>>,
    visited |-> <<>>,
    blank |-> FALSE ]

MsgFull ==
  [ text |-> "Relaxed beach trip to Goa with friends, 20th to 23rd December, 3 days, 15k, by train, hostel, vegan, sunny, calm. Wheelchair access. Special diet. Avoid Baga. Visited Panaji.",
    kw |-> {"beach", "dec", "december", "friends", "goa", "hostel", "nd",
            "panaji", "relax", "relaxed", "train", "vegan", "with friends"},
    re |-> {"adv_low", "food_veg", "sched_relaxed", "w_rainy", "w_sunny"},
    range |-> <<20, 23>>,
    day |-> <<20>>,
    iso |-> <<>>,
    isoRange |-> <<>>,
    inDays |-> <<>>,
    weekdayName |-> <<>>,
    daysMatch |-> <<3>>,
    budgetMatch |-> << <<20>>, <<15>>, <<>>, <<>> >>,
    unit |-> {"k"},
    safety |-> <<"Wheelchair access.">>,
    special |-> <<"Special diet.">>,
    avoid |-> << <<"Baga.">> >>,
    visited |-> << <<"Panaji.">> >>,
    blank |-> FALSE ]

MsgBlank ==
  [ text |-> "   ",
    kw |-> {},
    re |-> {},
    range |-> <<>>,
    day |-> <<>>,
    iso |-> <<>>,
    isoRange |-> <<>>,
    inDays |-> <<>>,
    weekdayName |-> <<>>,
    daysMatch |-> <<>>,
    budgetMatch |-> << <<>>, <<>>, <<>>, <<>> >>,
    unit |-> {},
    safety |-> <<>>,
    special |-> <<>>,
    avoid |-> <<>>,
    visited |-> <<>>,
    blank |-> TRUE ]

Messages == {MsgBudget, MsgFull}

\* first entry <<keyword, value>> of an ordered table whose keyword occurs
RECURSIVE FirstMatch(_, _)
FirstMatch(table, kw) ==
  IF table = <<>> THEN Null
  ELSE IF Head(table)[1] \in kw THEN Str(Head(table)[2])
       ELSE FirstMatch(Tail(table), kw)

monthMap ==
  << <<"january", 1>>, <<"jan", 1>>, <<"february", 2>>, <<"feb", 2>>,
     <<"march", 3>>, <<"mar", 3>>, <<"april", 4>>, <<"apr", 4>>, <<"may", 5>>,
     <<"june", 6>>, <<"jun", 6>>, <<"july", 7>>, <<"jul", 7>>,
     <<"august", 8>>, <<"aug", 8>>, <<"september", 9>>, <<"sep", 9>>,
     <<"october", 10>>, <<"oct", 10>>, <<"november", 11>>, <<"nov", 11>>,
     <<"december", 12>>, <<"dec", 12>> >>

\* number of the first month name of monthMap that occurs, 0 when none does
RECURSIVE FirstMonth(_, _)
FirstMonth(table, kw) ==
  IF table = <<>> THEN 0
  ELSE IF Head(table)[1] \in kw THEN Head(table)[2]
       ELSE FirstMonth(Tail(table), kw)

getDateString(daysOffset) == DateString(AddDays(Today, daysOffset))

dayMap ==
  [ monday |-> 1, tuesday |-> 2, wednesday |-> 3, thursday |-> 4,
    friday |-> 5, saturday |-> 6, sunday |-> 0 ]

getNextDayOfWeek(m) ==
  IF m.weekdayName = <<>> THEN ""
  ELSE LET targetDay == dayMap[m.weekdayName[1]]
           diff == targetDay - TodayWeekday
           daysAhead == IF diff <= 0 THEN diff + 7 ELSE diff
       IN  getDateString(daysAhead)

parseStartDate(m) ==
  LET month == FirstMonth(monthMap, m.kw)
  IN  IF m.range # <<>> /\ month # 0
        THEN Str(IsoString(Today[1], month, m.range[1]))
      ELSE IF month # 0 /\ m.day # <<>>
        THEN Str(IsoString(Today[1], month, m.day[1]))
      ELSE IF m.iso # <<>> THEN Str(m.iso[1])
      ELSE IF "today" \in m.kw THEN Str(getDateString(0))
      ELSE IF "tomorrow" \in m.kw THEN Str(getDateString(1))
      ELSE IF m.inDays # <<>> THEN Str(getDateString(m.inDays[1]))
      ELSE IF "weekday" \in m.re
        THEN (IF getNextDayOfWeek(m) = "" THEN Null
              ELSE Str(getNextDayOfWeek(m)))
      ELSE Null

parseEndDate(m) ==
  LET month == FirstMonth(monthMap, m.kw)
  IN  IF m.range # <<>> /\ month # 0
        THEN Str(IsoString(Today[1], month, m.range[2]))
      ELSE IF m.isoRange # <<>> THEN Str(m.isoRange[1])
      ELSE Null

parseTravelDays(m) ==
  IF m.daysMatch # <<>> THEN Num(m.daysMatch[1]) ELSE Null

\* the multipliers of nlp-parser.ts:233-244, applied one after the other
Multiplied(n, unit) ==
  LET a == IF "k" \in unit THEN n * 1000 ELSE n
      b == IF "thousand" \in unit THEN a * 1000 ELSE a
      c == IF "lakh" \in unit THEN b * 100000 ELSE b
  IN  IF "crore" \in unit THEN c * 10000000 ELSE c

RECURSIVE BudgetFrom(_, _, _)
BudgetFrom(m, i, n) ==
  IF i > n THEN Null
  ELSE IF m.budgetMatch[i] # <<>>
          /\ Multiplied(m.budgetMatch[i][1], m.unit) > 0
       THEN Num(Multiplied(m.budgetMatch[i][1], m.unit))
       ELSE BudgetFrom(m, i + 1, n)

parseBudget(m) == BudgetFrom(m, 1, Len(m.budgetMatch))

cities ==
  << <<"pune", "pune">>, <<"pimpri", "pune">>, <<"aundh", "pune">>,
     <<"goa", "goa">>, <<"panaji", "goa">>, <<"goan", "goa">>,
     <<"mumbai", "mumbai">>, <<"bombay", "mumbai">>,
     <<"bangalore", "bangalore">>, <<"bengaluru", "bangalore">>,
     <<"blr", "bangalore">>,
     <<"delhi", "delhi">>, <<"new delhi", "delhi">>, <<"nd", "delhi">>,
     <<"kerala", "kerala">>, <<"kochi", "kerala">>, <<"cochin", "kerala">>,
     <<"trivandrum", "kerala">>,
     <<"jaipur", "jaipur">>, <<"pink city", "jaipur">>,
     <<"agra", "agra">>, <<"taj", "agra">>,
     <<"shimla", "shimla">>, <<"simla", "shimla">>, <<"himachal", "shimla">>,
     <<"manali", "manali">>,
     <<"darjeeling", "darjeeling">>, <<"siliguri", "darjeeling">>,
     <<"ladakh", "ladakh">>, <<"leh", "ladakh">>, <<"srinagar", "ladakh">> >>

parseCity(m) == FirstMatch(cities, m.kw)

themeMap ==
  << <<"adventure", "adventure">>, <<"adventurous", "adventure">>,
     <<"trek", "adventure">>, <<"trekking", "adventure">>,
     <<"hiking", "adventure">>,
     <<"relax", "relaxed">>, <<"relaxation", "relaxed">>,
     <<"relaxed", "relaxed">>, <<"chill", "relaxed">>, <<"slow", "relaxed">>,
     <<"foodie", "foodie">>, <<"food", "foodie">>, <<"culinary", "foodie">>,
     <<"eating", "foodie">>,
     <<"cultural", "cultural">>, <<"culture", "cultural">>,
     <<"heritage", "cultural">>, <<"history", "cultural">>,
     <<"beach", "beach">>, <<"beaches", "beach">>, <<"seaside", "beach">>,
     <<"coast", "beach">>,
     <<"mountain", "mountain">>, <<"mountains", "mountain">>,
     <<"hills", "mountain">> >>

parseTripTheme(m) == FirstMatch(themeMap, m.kw)

groups ==
  << <<"solo", "solo">>, <<"alone", "solo">>, <<"myself", "solo">>,
     <<"just me", "solo">>, <<"by myself", "solo">>,
     <<"couple", "couple">>, <<"partner", "couple">>, <<"spouse", "couple">>,
     <<"girlfriend", "couple">>, <<"boyfriend", "couple">>,
     <<"wife", "couple">>, <<"husband", "couple">>,
     <<"my partner", "couple">>, <<"significant other", "couple">>,
     <<"family", "family">>, <<"kids", "family">>, <<"children", "family">>,
     <<"parents", "family">>, <<"family trip", "family">>,
     <<"with my family", "family">>, <<"grandparents", "family">>,
     <<"team", "team">>, <<"group of", "team">>, <<"friends", "team">>,
     <<"colleagues", "team">>, <<"office", "team">>, <<"company", "team">>,
     <<"with friends", "team">>, <<"group trip", "team">> >>

parseGroupType(m) == FirstMatch(groups, m.kw)

modes ==
  << <<"car", "car">>, <<"drive", "car">>, <<"driving", "car">>,
     <<"train", "train">>, <<"railway", "train">>,
     <<"bus", "bus">>, <<"coach", "bus">>,
     <<"flight", "flight">>, <<"fly", "flight">>, <<"flying", "flight">>,
     <<"bike", "bike">>, <<"motorcycle", "bike">>, <<"ride", "bike">>,
     <<"walk", "walk">>, <<"walking", "walk">>,
     <<"cycling", "cycling">>, <<"cycle", "cycling">> >>

parseTransportMode(m) == FirstMatch(modes, m.kw)

preferences ==
  << <<"budget", "budget">>, <<"cheap", "budget">>,
     <<"affordable", "budget">>,
     <<"midrange", "midrange">>, <<"mid-range", "midrange">>,
     <<"mid", "midrange">>, <<"moderate", "midrange">>,
     <<"standard", "midrange">>,
     <<"luxury", "luxury">>, <<"5star", "luxury">>,
     <<"five star", "luxury">>, <<"premium", "luxury">>,
     <<"homestay", "homestay">>, <<"home stay", "homestay">>,
     <<"hostel", "hostel">>, <<"backpacker", "hostel">> >>

parseStayPreference(m) == FirstMatch(preferences, m.kw)

parseAdventureLevel(m) ==
  IF "adv_high" \in m.re THEN Str("high")
  ELSE IF "adv_moderate" \in m.re THEN Str("moderate")
  ELSE IF "adv_low" \in m.re THEN Str("low")
  ELSE Null

parseFoodPreference(m) ==
  IF "food_veg" \in m.re
    THEN (IF "vegan" \in m.kw THEN Str("vegan") ELSE Str("vegetarian"))
  ELSE IF "food_nonveg" \in m.re THEN Str("non-vegetarian")
  ELSE IF "food_any" \in m.re THEN Str("any")
  ELSE Null

parseSchedulePreference(m) ==
  IF "sched_relaxed" \in m.re THEN Str("relaxed")
  ELSE IF "sched_busy" \in m.re THEN Str("busy")
  ELSE IF "sched_flexible" \in m.re THEN Str("flexible")
  ELSE Null

parseWeatherPreference(m) ==
  IF "w_cold" \in m.re THEN Str("cold")
  ELSE IF "w_hot" \in m.re THEN Str("hot")
  ELSE IF "w_rainy" \in m.re THEN Str("rainy")
  ELSE IF "w_sunny" \in m.re THEN Str("sunny")
  ELSE IF "w_mild" \in m.re THEN Str("mild")
  ELSE Null

\* match ? match[0].trim() : null; `clause` is the matched clause or <<>>
parseSpecialNeeds(clause) ==
  IF clause # <<>> THEN Str(clause[1]) ELSE Null

\* `pieces` is <<>> without a match, else <<the trimmed pieces of the split>>
parsePlacesList(pieces) ==
  IF pieces = <<>> THEN Null
  ELSE LET places == SelectSeq(pieces[1], LAMBDA p : p # "")
       IN  IF Len(places) > 0 THEN Arr(places) ELSE Null

parseMessage(m) ==
  [ startDate |-> parseStartDate(m),
    endDate |-> parseEndDate(m),
    travelDays |-> parseTravelDays(m),
    totalBudget |-> parseBudget(m),
    startingCity |-> parseCity(m),
    tripTheme |-> parseTripTheme(m),
    groupType |-> parseGroupType(m),
    transportMode |-> parseTransportMode(m),
    stayPreference |-> parseStayPreference(m),
    adventureLevel |-> parseAdventureLevel(m),
    foodPreference |-> parseFoodPreference(m),
    schedulePreference |-> parseSchedulePreference(m),
    weatherPreference |-> parseWeatherPreference(m),
    safetyNeeds |-> parseSpecialNeeds(m.safety),
    specialRequirements |-> parseSpecialNeeds(m.special),
    avoidPlaces |-> parsePlacesList(m.avoid),
    visitedPlaces |-> parsePlacesList(m.visited) ]

----------------------------------------------------------------------------
(* Thresholds *)

GenerationThreshold == 70      \* chat.ts: completeness >= 70
MockThresholdSrc == 70         \* ai-service.ts: completenessPercentage >= 70
MockThresholdDist == 75        \* compiled ai-service: completenessPercentage >= 75
MergeConfidence == 70          \* chat.ts: confidence > 0.7
RefineConfidence == 80         \* chat.ts: confidence > 0.8
DefaultConfidence == 80        \* parseAIResponse: parsed.confidence || 0.8
DefaultDays == 3               \* generateItinerary: travelDays || 3

----------------------------------------------------------------------------
(* The language-model provider: what one call to it yields.  kind is       *)
(* "nokey" (API key unset), "network" (the call throws), "non2xx",         *)
(* "empty" (no content), "nojson" (text without a JSON object) or "json";  *)
(* the other fields are the members of the JSON object (Undefined when the *)
(* member is missing).                                                     *)

Failure(kind) ==
  [ kind |-> kind, message |-> Undefined, extractedFields |-> Undefined,
    nextAction |-> Undefined, confidence |-> Undefined ]

ReplyHigh ==
  [ kind |-> "json",
    message |-> Str("Nice! Shall I plan it?"),
    extractedFields |->
      Obj([ startingCity |-> Str("delhi"), totalBudget |-> Num(-5000),
            comfortLevel |-> Str("standard"), destination |-> Str("Goa") ]),
    nextAction |-> Str("generate_itinerary"),
    confidence |-> Num(90) ]

ReplyLow ==
  [ kind |-> "json",
    message |-> Str("Cool! Where do you start from?"),
    extractedFields |-> Obj([ startingCity |-> Str("delhi") ]),
    nextAction |-> Str("ask_question"),
    confidence |-> Num(50) ]

ReplyNonText ==
  [ kind |-> "json",
    message |-> Num(42),
    extractedFields |-> Obj([ startingCity |-> Str("delhi") ]),
    nextAction |-> Str("ask_question"),
    confidence |-> Num(90) ]

\* a confident reply whose startDate is no date new Date() can read
ReplyBadDate ==
  [ kind |-> "json",
    message |-> Str("Great, planning it now."),
    extractedFields |-> Obj([ startDate |-> Str("next friday") ]),
    nextAction |-> Str("generate_itinerary"),
    confidence |-> Num(90) ]

FailureKinds == {"nokey", "network", "non2xx", "empty", "nojson"}

Replies ==
  {Failure(k) : k \in FailureKinds} \cup {ReplyHigh, ReplyLow, ReplyNonText}

\* what the provider yields in the chat turns of the model: a failed call, a
\* text without JSON, a confident JSON reply, one whose message is a number
\* and one whose startDate is malformed
TurnReplies ==
  {Failure("network"), Failure("nojson"), ReplyHigh, ReplyNonText, ReplyBadDate}

----------------------------------------------------------------------------
(* ai-service *)

\* a || b
OrElse(a, b) == IF Truthy(a) THEN a ELSE b

EmptyContext ==
  [ recentMessages |-> <<>>, currentChecklist |-> EmptyObject,
    completenessPercentage |-> 0, missingFields |-> <<>>,
    itineraryGenerated |-> Undefined ]

\* missing?.replace(/([A-Z])/g, ' $1').toLowerCase()
Humanized(field) ==
  CASE field = "startDate" -> "start date"
    [] field = "endDate" -> "end date"
    [] field = "travelDays" -> "travel days"
    [] field = "totalBudget" -> "total budget"
    [] field = "startingCity" -> "starting city"
    [] field = "tripTheme" -> "trip theme"
    [] field = "groupType" -> "group type"
    [] field = "transportMode" -> "transport mode"
    [] field = "stayPreference" -> "stay preference"
    [] field = "adventureLevel" -> "adventure level"
    [] field = "foodPreference" -> "food preference"
    [] field = "schedulePreference" -> "schedule preference"
    [] field = "weatherPreference" -> "weather preference"
    [] field = "safetyNeeds" -> "safety needs"
    [] field = "specialRequirements" -> "special requirements"
    [] field = "comfortLevel" -> "comfort level"
    [] field = "avoidPlaces" -> "avoid places"
    [] field = "visitedPlaces" -> "visited places"
    [] OTHER -> "undefined"

\* ai-service.ts getMockAIResponse
getMockAIResponseSrc(userMessage, context) ==
  LET missing == IF context.missingFields = <<>> THEN "undefined"
                 ELSE context.missingFields[1]
      question ==
        CASE missing \in {"startDate", "endDate"} ->
               "When are you thinking of traveling? Give me dates or duration."
          [] missing = "groupType" ->
               "Are you traveling solo, with partner, family, or a team?"
          [] missing = "transportMode" ->
               "How do you prefer to travel - flight, train, car, bus, or bike?"
          [] missing = "stayPreference" ->
               "What's your accommodation preference - budget hostels, mid-range hotels, or luxury resorts?"
          [] missing = "tripTheme" ->
               "What kind of trip appeals to you - adventure, relaxation, food & culture, beaches, or something else?"
          [] OTHER ->
               "Tell me more about your " \o Humanized(missing) \o " preference."
  IN  IF context.completenessPercentage >= MockThresholdSrc
      THEN [ message |-> Str("I have enough info! Generating your personalized itinerary now..."),
             extractedFields |-> EmptyObject,
             nextAction |-> "generate_itinerary",
             confidence |-> 95 ]
      ELSE [ message |-> Str("Thanks for that info! " \o question),
             extractedFields |-> EmptyObject,
             nextAction |-> "ask_question",
             confidence |-> 70 ]

\* value === null || value === undefined || (Array.isArray(value) && value.length === 0)
MissingValue(v) == ~NotNullish(v) \/ (v.t = "arr" /\ v.a = <<>>)

\* PRIORITY_QUESTIONS.find(...): the first missing field, "" when none is
RECURSIVE FindMissing(_, _)
FindMissing(fields, current) ==
  IF fields = <<>> THEN ""
  ELSE IF MissingValue(Get(current, Head(fields))) THEN Head(fields)
       ELSE FindMissing(Tail(fields), current)

QuestionFor(nextField) ==
  CASE nextField = "startingCity" -> "Which city are you starting from?"
    [] nextField = "totalBudget" -> "What's your total budget for this trip (approx in INR)?"
    [] nextField = "groupType" -> "Who are you traveling with - solo, a partner, family, or friends/team?"
    [] nextField = "tripTheme" -> "What kind of vibe are you looking for - adventure, relaxed, beach, nightlife, or mixed?"
    [] nextField = "startDate" -> "On which date are you planning to start the trip?"
    [] nextField = "travelDays" -> "How many days do you want to travel?"
    [] nextField = "transportMode" -> "What transport do you prefer - car, bus, train, flight, or bike?"
    [] nextField = "stayPreference" -> "What kind of stay are you looking for - hostel, budget hotel, homestay, or luxury?"
    [] nextField = "adventureLevel" -> "What's your adventure level - low, moderate, or high?"
    [] nextField = "foodPreference" -> "Any food preference - veg, non-veg, seafood, or anything?"
    [] nextField = "schedulePreference" -> "Do you want a relaxed schedule or a packed day-by-day plan?"
    [] nextField = "comfortLevel" -> "Comfort level - budget, standard, or premium?"
    [] nextField = "weatherPreference" -> "Any weather preference - sunny, cool, or something specific?"
    [] nextField = "safetyNeeds" -> "Any safety or health needs I should keep in mind?"
    [] nextField = "specialRequirements" -> "Any special requirements - kids, elders, pets, accessibility?"
    [] nextField = "avoidPlaces" -> "Anything you definitely want to avoid - crowded spots, pubs, long treks?"
    [] nextField = "visitedPlaces" -> "Any places in Goa you've already visited and want to skip this time?"
    [] OTHER -> "Anything else important for this trip that I should know?"

\* compiled ai-service getMockAIResponse
getMockAIResponseDist(userMessage, context) ==
  IF Truthy(context.itineraryGenerated)
  THEN [ message |-> Str("Your itinerary is ready! Feel free to ask me for modifications or additional details about any part of your trip."),
         extractedFields |-> EmptyObject,
         nextAction |-> "ask_question",
         confidence |-> 90 ]
  ELSE IF context.completenessPercentage >= MockThresholdDist
  THEN [ message |-> Str("Perfect! Let me create your itinerary now."),
         extractedFields |-> EmptyObject,
         nextAction |-> "generate_itinerary",
         confidence |-> 95 ]
  ELSE LET nextField == FindMissing(PRIORITY_QUESTIONS, context.currentChecklist)
       IN  [ message |-> Str("Got it! " \o QuestionFor(nextField)),
             extractedFields |-> EmptyObject,
             nextAction |-> "ask_question",
             confidence |-> 85 ]

getMockAIResponse(b, userMessage, context) ==
  IF b = "src" THEN getMockAIResponseSrc(userMessage, context)
  ELSE getMockAIResponseDist(userMessage, context)

\* parseAIResponse: the text holds a JSON object or the mock answers for an
\* empty message and an empty context
parseAIResponse(b, reply) ==
  IF reply.kind = "nojson"
  THEN getMockAIResponse(b, "", EmptyContext)
  ELSE [ message |-> OrElse(reply.message, Str("Got it!")),
         extractedFields |->
           IF Truthy(reply.extractedFields) THEN reply.extractedFields.o
           ELSE EmptyObject,
         nextAction |->
           IF Truthy(reply.nextAction) THEN reply.nextAction.s
           ELSE "ask_question",
         confidence |->
           IF Truthy(reply.confidence) THEN reply.confidence.n
           ELSE DefaultConfidence ]

\* ai-service.ts getAIResponse (Gemini over fetch)
getAIResponseSrc(userMessage, context, reply) ==
  IF reply.kind \in {"nokey", "network", "non2xx", "empty"}
  THEN getMockAIResponseSrc(userMessage, context)
  ELSE LET parsed == parseAIResponse("src", reply)
       IN  \* parsed.message.substring(0, 100) throws on a non-string,
           \* inside the try block
           IF parsed.message.t # "str"
           THEN getMockAIResponseSrc(userMessage, context)
           ELSE parsed

\* compiled getAIResponse / getGroqResponse (Groq SDK)
getAIResponseDist(userMessage, context, reply) ==
  IF reply.kind \in {"nokey", "network", "non2xx", "empty"}
  THEN getMockAIResponseDist(userMessage, context)
  ELSE parseAIResponse("dist", reply)

getAIResponse(b, userMessage, context, reply) ==
  IF b = "src" THEN getAIResponseSrc(userMessage, context, reply)
  ELSE getAIResponseDist(userMessage, context, reply)

allFields ==
  << "startDate", "endDate", "travelDays", "totalBudget", "startingCity",
     "tripTheme", "groupType", "transportMode", "stayPreference",
     "adventureLevel", "foodPreference", "schedulePreference",
     "weatherPreference", "safetyNeeds", "specialRequirements" >>

predictNextFields(history, current) ==
  SelectSeq(allFields, LAMBDA field : ~NotNullish(Get(current, field)))

\* entries of an object that pass `value !== null && value !== undefined`
Given(obj) == {k \in DOMAIN obj : NotNullish(obj[k])}

refineChecklistWithAI(checklist, aiExtracted) ==
  [k \in (DOMAIN checklist) \cup
         {f \in Given(aiExtracted) : ~Truthy(Get(checklist, f))} |->
     IF k \in Given(aiExtracted) /\ ~Truthy(Get(checklist, k))
     THEN aiExtracted[k] ELSE checklist[k]]

----------------------------------------------------------------------------
(* Sessions and the storage tiers.  A session is                           *)
(* [sessionId, checklist, history, hasHistory, completeness]; hasHistory   *)
(* is FALSE for the context object SmartMemory holds, which has no         *)
(* `history` member.  A store is a function from the session ids it holds. *)

NoStore == [k \in {} |-> Null]

\* JSON.parse(JSON.stringify(x)) on an object: undefined members are dropped
JsonObject(obj) == [k \in {f \in DOMAIN obj : obj[f].t # "undefined"} |-> obj[k]]

JsonCopy(session) ==
  [ sessionId |-> session.sessionId,
    checklist |-> JsonObject(session.checklist),
    history |->
      [i \in 1..Len(session.history) |->
         [ role |-> session.history[i].role,
           content |-> session.history[i].content,
           extractedFields |-> JsonObject(session.history[i].extractedFields) ]],
    hasHistory |-> session.hasHistory,
    completeness |-> session.completeness ]

\* raindrop-integration.ts getSessionFromCache: <<>> stands for null
getSessionFromCache(rc, cache, sessionId) ==
  IF ~rc THEN <<>>
  ELSE IF sessionId \in DOMAIN cache THEN <<cache[sessionId]>> ELSE <<>>

\* raindrop-integration.ts cacheSession: the cache after the call
cacheSession(rc, cache, sessionId, session, putOk) ==
  IF ~rc THEN cache
  ELSE IF putOk THEN Put(cache, sessionId, JsonCopy(session)) ELSE cache

\* raindrop-integration.ts saveSessionToSmartMemory: the memory after the call;
\* the saved context has the checklist and the completeness but no history
saveSessionToSmartMemory(rc, memory, sessionId, session, putOk) ==
  IF ~rc THEN memory
  ELSE IF putOk
       THEN Put(memory, sessionId,
                [ sessionId |-> sessionId,
                  checklist |-> session.checklist,
                  history |-> <<>>,
                  hasHistory |-> FALSE,
                  completeness |-> session.completeness ])
       ELSE memory

loadSessionFromSmartMemory(rc, memory, sessionId) ==
  IF ~rc THEN <<>>
  ELSE IF sessionId \in DOMAIN memory THEN <<memory[sessionId]>> ELSE <<>>

isRaindropReady(rc) == rc

\* a new session that already holds a greeting of the assistant
newSessionGreeted(sessionId) ==
  [ sessionId |-> sessionId,
    checklist |-> createEmptyChecklist,
    history |-> << [ role |-> "assistant", content |-> Str("Hello!"),
                     extractedFields |-> EmptyObject ] >>,
    hasHistory |-> TRUE,
    completeness |-> 0 ]

newSession(sessionId) ==
  [ sessionId |-> sessionId,
    checklist |-> createEmptyChecklist,
    history |-> <<>>,
    hasHistory |-> TRUE,
    completeness |-> 0 ]

\* chat.ts initializeSession: the session, the tier it came from and the
\* in-process store after the call
initializeSession(rc, cache, store, memory, sessionId) ==
  IF getSessionFromCache(rc, cache, sessionId) # <<>>
  THEN [ session |-> getSessionFromCache(rc, cache, sessionId)[1],
         source |-> "cache", store |-> store ]
  ELSE IF sessionId \in DOMAIN store
  THEN [ session |-> store[sessionId], source |-> "store", store |-> store ]
  ELSE IF isRaindropReady(rc)
          /\ loadSessionFromSmartMemory(rc, memory, sessionId) # <<>>
  THEN [ session |-> loadSessionFromSmartMemory(rc, memory, sessionId)[1],
         source |-> "memory",
         store |-> Put(store, sessionId,
                       loadSessionFromSmartMemory(rc, memory, sessionId)[1]) ]
  ELSE [ session |-> newSession(sessionId),
         source |-> "new",
         store |-> Put(store, sessionId, newSession(sessionId)) ]

\* a persistSession that leaves the Map alone when it has an entry for
\* the session id
persistSessionIfAbsent(rc, cache, store, memory, session, kvOk, memOk) ==
  [ kv |-> cache,
    sessionStore |-> IF session.sessionId \in DOMAIN store THEN store
                     ELSE Put(store, session.sessionId, session),
    smartMemory |-> memory ]

\* chat.ts persistSession: the three tiers after the call
persistSession(rc, cache, store, memory, session, kvOk, memOk) ==
  [ kv |-> cacheSession(rc, cache, session.sessionId, session, kvOk),
    sessionStore |-> Put(store, session.sessionId, session),
    smartMemory |->
      IF isRaindropReady(rc)
      THEN saveSessionToSmartMemory(rc, memory, session.sessionId, session, memOk)
      ELSE memory ]

\* chat.ts resetSession
resetSession(store, sessionId) ==
  [k \in (DOMAIN store) \ {sessionId} |-> store[k]]

----------------------------------------------------------------------------
(* chat.ts: the itinerary synthesizer *)

Years == {Today[1] - 1, Today[1], Today[1] + 1}

IsoDates ==
  {d \in Years \X (1..12) \X (1..31) : d[3] <= DaysInMonth(d[1], d[2])}

\* the ISO strings new Date() reads, each with its date
DateTable == {<<DateString(d), d>> : d \in IsoDates}

\* new Date(value): <<date>>, or <<>> for an Invalid Date
NewDate(v) ==
  IF v.t = "str"
  THEN LET found == {p \in DateTable : p[1] = v.s}
       IN  IF \E p \in found : TRUE
           THEN <<(CHOOSE p \in found : TRUE)[2]>> ELSE <<>>
  ELSE <<>>

\* the length Array.from({ length: v }) gives
ToLength(v) == IF v.t = "num" /\ v.n > 0 THEN v.n ELSE 0

\* (checklist.totalBudget || 0)
BudgetOrZero(checklist) ==
  IF Truthy(Get(checklist, "totalBudget")) /\ Get(checklist, "totalBudget").t = "num"
  THEN Get(checklist, "totalBudget").n ELSE 0

\* theme.charAt(0).toUpperCase() + theme.slice(1)
Capitalized(theme) ==
  CASE theme = "adventure" -> "Adventure"
    [] theme = "relaxed" -> "Relaxed"
    [] theme = "foodie" -> "Foodie"
    [] theme = "cultural" -> "Cultural"
    [] theme = "beach" -> "Beach"
    [] theme = "mountain" -> "Mountain"
    [] OTHER -> theme

getThemeForDay(dayIndex, totalDays, checklist) ==
  LET theme == IF Truthy(Get(checklist, "tripTheme"))
               THEN Get(checklist, "tripTheme").s ELSE "Mixed"
  IN  IF dayIndex = 0 THEN "Arrival & Settling In"
      ELSE IF dayIndex = totalDays - 1 THEN "Departure"
      ELSE Capitalized(theme) \o " Activities"

generateDayBlocks(dayIndex, checklist) ==
  LET theme == IF Truthy(Get(checklist, "tripTheme"))
               THEN Get(checklist, "tripTheme").s ELSE "mixed"
  IN  (IF dayIndex = 0 THEN <<"Arrive & Check-in">> ELSE <<>>)
      \o (IF theme \in {"adventure", "relaxed"}
          THEN <<"Explore local attractions">> ELSE <<>>)
      \o (IF theme = "foodie" THEN <<"Local food tour">> ELSE <<>>)
      \o <<"Lunch", "Afternoon activity", "Sunset & evening", "Dinner">>

NoItinerary ==
  [ present |-> FALSE, days |-> <<>>,
    budgetBreakdown |->
      [accommodation |-> 0, food |-> 0, activities |-> 0, transport |-> 0] ]

\* a synthesizer without the catch branch: it answers with an itinerary
\* object whatever happened while the days were built
generateItineraryUncaught(checklist) == [NoItinerary EXCEPT !.present = TRUE]

\* chat.ts generateItinerary; NoItinerary stands for undefined
generateItinerary(checklist) ==
  LET days == OrElse(Get(checklist, "travelDays"), Num(DefaultDays))
      startDate == IF Truthy(Get(checklist, "startDate"))
                   THEN NewDate(Get(checklist, "startDate"))
                   ELSE <<Today>>
      total == BudgetOrZero(checklist)
  IN  IF ToLength(days) > 0 /\ startDate = <<>>
      THEN NoItinerary     \* toISOString() throws RangeError, caught
      ELSE [ present |-> TRUE,
             days |->
               [i \in 1..ToLength(days) |->
                  [ day |-> i,
                    date |-> DateString(AddDays(startDate[1], i - 1)),
                    theme |-> "Day " \o ToString(i) \o ": "
                                \o getThemeForDay(i - 1, days.n, checklist),
                    blocks |-> generateDayBlocks(i - 1, checklist),
                    estimatedBudget |-> Round(total, days.n) ]],
             budgetBreakdown |->
               [ accommodation |-> Round(total * 4, 10),
                 food |-> Round(total * 3, 10),
                 activities |-> Round(total * 2, 10),
                 transport |-> Round(total * 1, 10) ] ]

----------------------------------------------------------------------------
(* chat.ts: one chat turn *)

\* a merge that also takes the AI fields at a confidence of exactly 0.7
MergedAtLeast(nlpExtracted, aiResponse) ==
  IF aiResponse.confidence >= MergeConfidence
  THEN [k \in (DOMAIN nlpExtracted)
              \cup {f \in DOMAIN aiResponse.extractedFields :
                      NotNullish(aiResponse.extractedFields[f])} |->
          IF k \in DOMAIN aiResponse.extractedFields
             /\ NotNullish(aiResponse.extractedFields[k])
          THEN aiResponse.extractedFields[k] ELSE nlpExtracted[k]]
  ELSE nlpExtracted

\* merged = { ...nlpExtracted } overlaid with the AI fields when confident
Merged(nlpExtracted, aiResponse) ==
  IF aiResponse.confidence > MergeConfidence
  THEN [k \in (DOMAIN nlpExtracted) \cup Given(aiResponse.extractedFields) |->
          IF k \in Given(aiResponse.extractedFields)
          THEN aiResponse.extractedFields[k] ELSE nlpExtracted[k]]
  ELSE nlpExtracted

\* for each entry of merged with a value: checklist[key] = value
UpdateChecklist(checklist, merged) ==
  [k \in (DOMAIN checklist) \cup Given(merged) |->
     IF k \in Given(merged) THEN merged[k] ELSE checklist[k]]

\* `${value}` of a message value
Text(v) == IF v.t = "str" THEN v.s ELSE IF v.t = "num" THEN ToString(v.n) ELSE ""

LastN(seq, n) == IF Len(seq) <= n THEN seq ELSE SubSeq(seq, Len(seq) - n + 1, Len(seq))

NoResponse ==
  [ completeness |-> 0, status |-> "", checklist |-> EmptyObject,
    history |-> <<>>, itinerary |-> NoItinerary, confidence |-> 0 ]

NoAI ==
  [ message |-> Undefined, extractedFields |-> EmptyObject,
    nextAction |-> "", confidence |-> 0 ]

\* the context chat hands to getAIResponse, lines 346-351
TurnContext(b, session) ==
  [ recentMessages |-> LastN(session.history, 6),
    currentChecklist |-> session.checklist,
    completenessPercentage |-> calculateCompleteness(b, session.checklist),
    missingFields |-> predictNextFields(session.history, session.checklist),
    itineraryGenerated |-> Undefined ]

\* chat, lines 353-434, on the session it loaded: from the merge to the
\* response.  `context` is what getAIResponse was called with, `reply` what
\* the provider yields; `after` is the session as the turn leaves it.
turn(b, session, context, m, reply) ==
  LET aiResponse == getAIResponse(b, m.text, context, reply)
      nlpExtracted == parseMessage(m)
      merged == Merged(nlpExtracted, aiResponse)
      updated == UpdateChecklist(session.checklist, merged)
      checklist == IF aiResponse.confidence > RefineConfidence
                   THEN refineChecklistWithAI(updated, merged)
                   ELSE updated
      completeness == calculateCompleteness(b, checklist)
      userMsg == [ role |-> "user", content |-> Str(m.text),
                   extractedFields |-> merged ]
      generate == completeness >= GenerationThreshold
                  /\ aiResponse.nextAction = "generate_itinerary"
      itinerary == IF generate THEN generateItinerary(checklist)
                   ELSE NoItinerary
      assistantContent ==
        IF generate
        THEN Str("Perfect! I have enough info to create your itinerary!\n\n"
                 \o Text(aiResponse.message))
        ELSE aiResponse.message
      assistantMsg == [ role |-> "assistant", content |-> assistantContent,
                        extractedFields |-> EmptyObject ]
      after == [ sessionId |-> session.sessionId,
                 checklist |-> checklist,
                 history |-> session.history \o <<userMsg, assistantMsg>>,
                 hasHistory |-> TRUE,
                 completeness |-> completeness ]
  IN  [ \* aiResponse.message.split('\n') throws on a non-string
        threw |-> aiResponse.message.t # "str",
        response |->
          IF aiResponse.message.t # "str" THEN NoResponse
          ELSE [ completeness |-> completeness,
                 status |-> IF completeness >= GenerationThreshold
                            THEN "complete" ELSE "incomplete",
                 checklist |-> checklist,
                 history |-> after.history,
                 itinerary |-> itinerary,
                 confidence |-> aiResponse.confidence ],
        ai |-> aiResponse, merged |-> merged, after |-> after ]

\* chat, lines 415-434: persistSession(session) and the return, for the
\* outcome t of the turn on the session `init` loaded
Persisted(rc, cache, memory, init, context, t, kvOk, memOk) ==
  LET tiers == persistSession(rc, cache, init.store, memory, t.after,
                              kvOk, memOk)
  IN  [ threw |-> t.threw, response |-> t.response,
        pre |-> init.session, source |-> init.source, ai |-> t.ai,
        merged |-> t.merged, context |-> context,
        kv |-> tiers.kv, sessionStore |-> tiers.sessionStore,
        smartMemory |-> tiers.smartMemory ]

\* chat(sessionId, userMessage): the response or the exception, and the
\* tiers after the call.  `reply` is what the provider yields in this turn,
\* kvOk and memOk whether the two storage writes succeed.
chat(b, rc, cache, store, memory, sessionId, m, reply, kvOk, memOk) ==
  LET init == initializeSession(rc, cache, store, memory, sessionId)
      session == init.session
  IN  IF ~session.hasHistory
      THEN \* session.history.slice(-6): TypeError on undefined
           [ threw |-> TRUE, response |-> NoResponse, pre |-> session,
             source |-> init.source, ai |-> NoAI, merged |-> EmptyObject,
             context |-> EmptyContext,
             kv |-> cache, sessionStore |-> init.store, smartMemory |-> memory ]
      ELSE Persisted(rc, cache, memory, init, TurnContext(b, session),
                     turn(b, session, TurnContext(b, session), m, reply),
                     kvOk, memOk)

----------------------------------------------------------------------------
(* handlers/chat-handler.ts: the HTTP boundary *)

\* the message member of a request body: a string with its lexical facts
StrMsg(m) == [t |-> "str", s |-> m.text, m |-> m]

RequestSessionIds == {Undefined, Str(""), Str("   "), Str("s1")}

RequestMessages ==
  {Undefined} \cup {StrMsg(m) : m \in Messages \cup {MsgBlank}}

\* the session ids that pass the validation of POST /api/chat
SessionIds == {"s1", "   "}

NoSession ==
  [ sessionId |-> "", checklist |-> EmptyObject, history |-> <<>>,
    hasHistory |-> FALSE, completeness |-> 0 ]

\* what is remembered of the chat turns of one session since its last reset
\* (or since the process started): how many there were, whether the provider
\* failed in each of them, the last response returned, and whether the
\* session was reset and not chatted with since
NoTrack ==
  [ turns |-> 0, failing |-> TRUE, response |-> NoResponse, afterReset |-> FALSE ]

NoLast ==
  [ op |-> "none", sessionId |-> Undefined, message |-> Undefined,
    reply |-> Failure("nokey"), kvOk |-> TRUE, memOk |-> TRUE,
    http |-> 0, engine |-> FALSE,
    pre |-> NoSession, source |-> "", ai |-> NoAI, merged |-> EmptyObject,
    context |-> EmptyContext, response |-> NoResponse, prev |-> NoTrack,
    before |-> <<NoStore, NoStore, NoStore>> ]

\* the validation of POST /api/chat, lines 53-65
ValidChatRequest(sessionId, message) ==
  /\ Truthy(sessionId) /\ sessionId.t = "str"
  /\ Truthy(message) /\ message.t = "str" /\ ~message.m.blank

Init ==
  /\ build \in {"src", "dist"}
  /\ raindropContext \in BOOLEAN
  /\ kv = NoStore
  /\ sessionStore = NoStore
  /\ smartMemory = NoStore
  /\ last = NoLast
  /\ track = [sid \in SessionIds |-> NoTrack]
  /\ steps = 0
  /\ faults = 0
  /\ turns = <<>>
  /\ writes = {}

\* POST /api/chat with a body that fails the validation: 400.  The message
\* is not looked at when the session id is refused.
PostChatRejected(sessionId, message) ==
  /\ steps < MaxSteps
  /\ ~ValidChatRequest(sessionId, message)
  /\ Truthy(sessionId) \/ message = Undefined
  /\ last' = [NoLast EXCEPT
                !.op = "chat", !.sessionId = sessionId,
                !.message = IF message.t = "str" THEN Str(message.s) ELSE message,
                !.http = 400,
                !.before = <<kv, sessionStore, smartMemory>>]
  /\ steps' = steps + 1
  /\ UNCHANGED <<build, raindropContext, kv, sessionStore, smartMemory,
                 track, faults, turns, writes>>

\* POST /api/chat with a valid body: chat(sessionId, message.trim()), then
\* 200 with the response, or 500 when chat threw
PostChat(sessionId, message, reply, kvOk, memOk) ==
  /\ steps < MaxSteps
  /\ ValidChatRequest(sessionId, message)
  /\ raindropContext \/ (kvOk /\ memOk)
  /\ faults + (IF kvOk THEN 0 ELSE 1) + (IF memOk THEN 0 ELSE 1) <= MaxFaults
  /\ \E r \in {chat(build, raindropContext, kv, sessionStore, smartMemory,
                    sessionId.s, message.m, reply, kvOk, memOk)},
        prev \in {track[sessionId.s]} :
         /\ kv' = r.kv
         /\ sessionStore' = r.sessionStore
         /\ smartMemory' = r.smartMemory
         /\ last' = [ op |-> "chat", sessionId |-> sessionId,
                      message |-> Str(message.s), reply |-> reply,
                      kvOk |-> kvOk, memOk |-> memOk,
                      http |-> IF r.threw THEN 500 ELSE 200,
                      engine |-> TRUE, pre |-> r.pre, source |-> r.source,
                      ai |-> r.ai, merged |-> r.merged, context |-> r.context,
                      response |-> r.response, prev |-> prev,
                      before |-> <<kv, sessionStore, smartMemory>> ]
         /\ track' = [track EXCEPT ![sessionId.s] =
                        [ turns |-> prev.turns + 1,
                          failing |-> prev.failing /\ reply.kind # "json",
                          response |-> IF r.threw THEN prev.response
                                       ELSE r.response,
                          afterReset |-> FALSE ]]
  /\ steps' = steps + 1
  /\ faults' = faults + (IF kvOk THEN 0 ELSE 1) + (IF memOk THEN 0 ELSE 1)
  /\ UNCHANGED <<build, raindropContext, turns, writes>>

\* GET /api/session/:sessionId
GetSession(sid) ==
  /\ steps < MaxSteps
  /\ \E init \in {initializeSession(raindropContext, kv, sessionStore,
                                     smartMemory, sid)} :
         /\ sessionStore' = init.store
         /\ last' = [NoLast EXCEPT
                       !.op = "get", !.sessionId = Str(sid),
                       \* session.history.length throws without a history
                       !.http = IF init.session.hasHistory THEN 200 ELSE 500,
                       !.pre = init.session, !.source = init.source,
                       !.response =
                         IF init.session.hasHistory
                         THEN [NoResponse EXCEPT
                                 !.completeness = init.session.completeness,
                                 !.checklist = init.session.checklist,
                                 !.history = init.session.history]
                         ELSE NoResponse,
                       !.prev = track[sid],
                       !.before = <<kv, sessionStore, smartMemory>>]
  /\ steps' = steps + 1
  /\ UNCHANGED <<build, raindropContext, kv, smartMemory, track, faults,
                 turns, writes>>

\* the checklist literal of the reset handler, lines 144-157
ResetChecklist ==
  [ startDate |-> Null, endDate |-> Null, travelDays |-> Null,
    totalBudget |-> Null, destinations |-> Arr(<<>>), activities |-> Arr(<<>>),
    accommodation |-> Null, transportation |-> Null, documents |-> Arr(<<>>),
    packing |-> Arr(<<>>), contacts |-> Arr(<<>>), notes |-> Arr(<<>>) ]

\* POST /api/session/:sessionId/reset: the loaded session object is changed
\* in place; a session parsed from the cache is a copy no tier holds
PostReset(sid) ==
  /\ steps < MaxSteps
  /\ \E init \in {initializeSession(raindropContext, kv, sessionStore,
                                     smartMemory, sid)} :
     \E session \in {[init.session EXCEPT !.checklist = ResetChecklist,
                                          !.history = <<>>,
                                          !.hasHistory = TRUE]} :
         /\ sessionStore' = IF init.source = "cache" THEN init.store
                            ELSE Put(init.store, sid, session)
         /\ last' = [NoLast EXCEPT
                       !.op = "reset", !.sessionId = Str(sid), !.http = 200,
                       !.pre = init.session, !.source = init.source,
                       !.response =
                         [NoResponse EXCEPT
                            !.completeness = session.completeness,
                            !.checklist = session.checklist,
                            !.history = session.history],
                       !.prev = track[sid],
                       !.before = <<kv, sessionStore, smartMemory>>]
  /\ track' = [track EXCEPT ![sid] = [NoTrack EXCEPT !.afterReset = TRUE]]
  /\ steps' = steps + 1
  /\ UNCHANGED <<build, raindropContext, kv, smartMemory, faults, turns,
                 writes>>

\* the process restarts: the in-process Map is lost, the external tiers stay
Restart ==
  /\ steps < MaxSteps
  /\ sessionStore # NoStore
  /\ sessionStore' = NoStore
  /\ last' = [NoLast EXCEPT !.op = "restart",
                            !.before = <<kv, sessionStore, smartMemory>>]
  /\ track' = [sid \in SessionIds |-> NoTrack]
  /\ steps' = steps + 1
  /\ UNCHANGED <<build, raindropContext, kv, smartMemory, faults, turns,
                 writes>>

Next ==
  \/ \E sessionId \in RequestSessionIds, message \in RequestMessages :
       PostChatRejected(sessionId, message)
  \/ \E sessionId \in RequestSessionIds, message \in RequestMessages,
        reply \in TurnReplies, kvOk \in BOOLEAN, memOk \in BOOLEAN :
       PostChat(sessionId, message, reply, kvOk, memOk)
  \/ \E sid \in SessionIds : GetSession(sid)
  \/ \E sid \in SessionIds : PostReset(sid)
  \/ Restart

Spec == Init /\ [][Next]_vars

----------------------------------------------------------------------------
(* The pure functions on their own: calculateCompleteness and              *)
(* getAIResponse applied to checklists drawn from the ones a chat turn     *)
(* leaves behind and edited field by field.  Here `last` holds the         *)
(* checklist, the checklist before the edit, and the last call made.       *)

MaxEdits == 2

\* a value of each field's type
Sample(field) ==
  CASE field = "travelDays" -> Num(3)
    [] field = "totalBudget" -> Num(15000)
    [] field \in {"avoidPlaces", "visitedPlaces"} -> Arr(<<"Baga">>)
    [] field \in {"startDate", "endDate"} -> Str("2026-12-20")
    [] OTHER -> Str("standard")

\* empty string, null (or undefined) and zero-length list
EmptyValue(v) == ~NotNullish(v) \/ v = Str("") \/ v = Arr(<<>>)

EmptyValues == {Null, Str(""), Arr(<<>>)}

\* a checklist in which the first n fields have been collected
Collected(n) ==
  [k \in Range(CHECKLIST_FIELDS) |->
     IF \E i \in 1..n : CHECKLIST_FIELDS[i] = k THEN Sample(k) ELSE Null]

\* the checklist of a new session, the one a turn with the full message and
\* the fallback responder leaves, the one a turn with the full message
\* and the confident provider reply leaves, and the checklists with the
\* first so many fields collected
SeedChecklists ==
  { createEmptyChecklist,
    chat("src", FALSE, NoStore, NoStore, NoStore, "s1", MsgFull,
         Failure("network"), TRUE, TRUE).response.checklist,
    chat("src", FALSE, NoStore, NoStore, NoStore, "s1", MsgFull,
         ReplyHigh, TRUE, TRUE).response.checklist }
    \cup {Collected(n) : n \in 0..Len(CHECKLIST_FIELDS)}

\* the fields the edits blank out
BlankFields == {"startingCity", "comfortLevel", "avoidPlaces"}

PureLast(op, checklist, was) ==
  [ op |-> op, checklist |-> checklist, was |-> was, text |-> "",
    reply |-> Failure("nokey"), context |-> EmptyContext, ai |-> NoAI ]

InitPure ==
  /\ build \in {"src", "dist", "js"}
  /\ raindropContext = FALSE
  /\ kv = NoStore
  /\ sessionStore = NoStore
  /\ smartMemory = NoStore
  /\ track = [sid \in SessionIds |-> NoTrack]
  /\ steps = 0
  /\ faults = 0
  /\ turns = <<>>
  /\ writes = {}
  /\ \E c \in SeedChecklists : last = PureLast("seed", c, c)

\* one more field changes from empty to non-empty
Fill(field) ==
  /\ steps < MaxEdits
  /\ EmptyValue(Get(last.checklist, field))
  /\ last' = PureLast("fill", Put(last.checklist, field, Sample(field)),
                      last.checklist)
  /\ steps' = steps + 1
  /\ UNCHANGED <<build, raindropContext, kv, sessionStore, smartMemory,
                 track, faults, turns, writes>>

\* a field is set to an empty value
Empty(field, e) ==
  /\ steps < MaxEdits
  /\ Get(last.checklist, field) # e
  /\ last' = PureLast("empty", Put(last.checklist, field, e), last.checklist)
  /\ steps' = steps + 1
  /\ UNCHANGED <<build, raindropContext, kv, sessionStore, smartMemory,
                 track, faults, turns, writes>>

\* getAIResponse(userMessage, context) for the context chat builds of the
\* checklist, with the provider yielding `reply`
Respond(m, reply) ==
  /\ \E context \in {TurnContext(build, [newSession("s1") EXCEPT
                                            !.checklist = last.checklist])} :
       last' = [ op |-> "respond", checklist |-> last.checklist,
                 was |-> last.was, text |-> m.text, reply |-> reply,
                 context |-> context,
                 ai |-> getAIResponse(build, m.text, context, reply) ]
  /\ UNCHANGED <<build, raindropContext, kv, sessionStore, smartMemory,
                 track, steps, faults, turns, writes>>

\* what a message and a reply may yield for the refine pass
Extractions ==
  { [ totalBudget |-> Num(15000), travelDays |-> Num(3),
      startingCity |-> Str("pune"), endDate |-> Null ] }

\* refineChecklistWithAI(checklist, aiExtracted)
Refine(aiExtracted) ==
  /\ steps < MaxEdits
  /\ \E refined \in {refineChecklistWithAI(last.checklist, aiExtracted)} :
       last' = [ PureLast("refine", refined, last.checklist) EXCEPT
                   !.ai = [NoAI EXCEPT !.extractedFields = aiExtracted] ]
  /\ steps' = steps + 1
  /\ UNCHANGED <<build, raindropContext, kv, sessionStore, smartMemory,
                 track, faults, turns, writes>>

NextPure ==
  \/ \E field \in Range(CHECKLIST_FIELDS) : Fill(field)
  \/ \E field \in BlankFields, e \in EmptyValues : Empty(field, e)
  \/ \E field \in {"travelDays", "totalBudget"} : Empty(field, Num(0))
  \/ \E aiExtracted \in Extractions : Refine(aiExtracted)
  \/ \E reply \in Replies : Respond(MsgBudget, reply)

SpecPure == InitPure /\ [][NextPure]_vars

----------------------------------------------------------------------------
(* generateItinerary on its own, applied to checklists whose totalBudget   *)
(* is drawn from a range of amounts.  Here `last` holds the checklist and  *)
(* the itinerary synthesized from it.                                      *)

MaxBudget == 120

\* the small amounts, and two amounts of the size a trip costs
Budgets == (0..MaxBudget) \cup {15000, 15005}

\* the trip lengths: absent (the default applies), one, two and three days
TripLengths == {Null, Num(1), Num(2), Num(3)}

InitItinerary ==
  /\ build \in {"src", "dist"}
  /\ raindropContext = FALSE
  /\ kv = NoStore
  /\ sessionStore = NoStore
  /\ smartMemory = NoStore
  /\ track = [sid \in SessionIds |-> NoTrack]
  /\ steps = 0
  /\ faults = 0
  /\ turns = <<>>
  /\ writes = {}
  /\ \E b \in Budgets, days \in TripLengths,
        theme \in {Null, Str("beach")},
        startDate \in {Null, Str("2026-12-30")} :
       last = [ op |-> "seed",
                checklist |-> [createEmptyChecklist EXCEPT
                                 !["totalBudget"] = Num(b),
                                 !["travelDays"] = days,
                                 !["tripTheme"] = theme,
                                 !["startDate"] = startDate],
                itinerary |-> NoItinerary ]

\* generateItinerary(session.checklist)
Synthesize ==
  /\ last.op = "seed"
  /\ \E itinerary \in {generateItinerary(last.checklist)} :
       last' = [last EXCEPT !.op = "itinerary", !.itinerary = itinerary]
  /\ UNCHANGED <<build, raindropContext, kv, sessionStore, smartMemory,
                 track, steps, faults, turns, writes>>

NextItinerary == Synthesize

SpecItinerary == InitItinerary /\ [][NextItinerary]_vars

----------------------------------------------------------------------------
(* parseMessage on its own, applied to messages put together from a        *)
(* leading word, a date range "D1 to D2 Month", a trip length "N days" and *)
(* an amount with or without a unit, joined by ", ".  The lexical facts of *)
(* such a message follow from its parts by the regular expressions of      *)
(* nlp-parser.ts.  Here `last` holds the parts, the message and what       *)
(* parseMessage returns for it.                                            *)

\* leading words: none, and two words that contain a month name
Leads == {"", "Maybe", "Market trip"}

\* <<D1, D2, month>>
SaidRanges == {<<>>, <<20, 23, 12>>, <<5, 8, 6>>}

SaidDays == {<<>>, <<3>>}

\* <<N, unit>>: "15k", "3 lakh", "5000 rs", "20000", and two amounts of
\* twenty million, "200 lakh" and "20000000"
SaidAmounts ==
  { <<>>, <<15, "k">>, <<3, "lakh">>, <<5000, "rs">>, <<20000, "">>,
    <<200, "lakh">>, <<20000000, "">> }

MonthName(month) ==
  CASE month = 6 -> "June"
    [] month = 12 -> "December"
    [] OTHER -> "May"

\* the month names of monthMap that lower.includes() finds in a part
MonthsIn(part) ==
  CASE part = "Maybe" -> {"may"}
    [] part = "Market trip" -> {"mar"}
    [] part = "June" -> {"june", "jun"}
    [] part = "December" -> {"december", "dec"}
    [] part = "May" -> {"may"}
    [] OTHER -> {}

Compose(lead, range, days, amount) ==
  LET rangeText == IF range = <<>> THEN ""
                   ELSE ToString(range[1]) \o " to " \o ToString(range[2])
                          \o " " \o MonthName(range[3])
      daysText == IF days = <<>> THEN "" ELSE ToString(days[1]) \o " days"
      amountText == IF amount = <<>> THEN ""
                    ELSE IF amount[2] = "" THEN ToString(amount[1])
                    ELSE IF amount[2] = "k" THEN ToString(amount[1]) \o "k"
                    ELSE ToString(amount[1]) \o " " \o amount[2]
      clauses == SelectSeq(<<lead, rangeText, daysText, amountText>>,
                           LAMBDA c : c # "")
      Join[i \in 0..Len(clauses)] ==
        IF i = 0 THEN ""
        ELSE IF i = 1 THEN clauses[1]
        ELSE Join[i - 1] \o ", " \o clauses[i]
      \* the digit runs of the text, in order
      numbers == (IF range = <<>> THEN <<>> ELSE <<range[1], range[2]>>)
                   \o days
                   \o (IF amount = <<>> THEN <<>> ELSE <<amount[1]>>)
      \* (\d{1,2}): the first two digits of a digit run
      TwoDigits(n) == IF n >= 10000000 THEN n \div 1000000
                      ELSE IF n >= 1000000 THEN n \div 100000
                      ELSE IF n >= 100000 THEN n \div 10000
                      ELSE IF n >= 10000 THEN n \div 1000
                      ELSE IF n >= 1000 THEN n \div 100
                      ELSE IF n >= 100 THEN n \div 10
                      ELSE n
  IN  [ text |-> Join[Len(clauses)],
        kw |-> MonthsIn(lead) \cup
               (IF range = <<>> THEN {} ELSE MonthsIn(MonthName(range[3]))),
        re |-> {},
        \* /(\d{1,2})(?:st|nd|rd|th)?\s*(?:to|[-–—])\s*(\d{1,2})/
        range |-> IF range = <<>> THEN <<>> ELSE <<range[1], range[2]>>,
        \* /(\d{1,2})(?:st|nd|rd|th)?/
        day |-> IF numbers = <<>> THEN <<>> ELSE <<TwoDigits(numbers[1])>>,
        iso |-> <<>>,
        isoRange |-> <<>>,
        inDays |-> <<>>,
        weekdayName |-> <<>>,
        \* /(\d+)\s*(?:days?|nights?|d|nights)/i, which "23 December" matches
        daysMatch |-> IF range # <<>> /\ MonthName(range[3]) = "December"
                      THEN <<range[2]>> ELSE days,
        budgetMatch |->
          << \* /[₹₽Rs.rs]*\s*(\d+(?:,\d{3})*)\s*(?:rupees?|rs|inr)?/i
             IF numbers = <<>> THEN <<>> ELSE <<numbers[1]>>,
             \* /(\d+)\s*k\b/i
             IF amount # <<>> /\ amount[2] = "k" THEN <<amount[1]>> ELSE <<>>,
             \* /(\d+)\s*(?:thousand|lakh|crore)\b/i
             IF amount # <<>> /\ amount[2] \in {"thousand", "lakh", "crore"}
             THEN <<amount[1]>> ELSE <<>>,
             \* /\b(\d{4,})\b/
             IF amount # <<>> /\ amount[2] # "k" /\ amount[1] >= 1000
             THEN <<amount[1]>> ELSE <<>> >>,
        unit |-> IF amount = <<>> THEN {}
                 ELSE {amount[2]} \cap {"k", "thousand", "lakh", "crore"},
        safety |-> <<>>,
        special |-> <<>>,
        avoid |-> <<>>,
        visited |-> <<>>,
        blank |-> clauses = <<>> ]

InitParse ==
  /\ build = "src"
  /\ raindropContext = FALSE
  /\ kv = NoStore
  /\ sessionStore = NoStore
  /\ smartMemory = NoStore
  /\ track = [sid \in SessionIds |-> NoTrack]
  /\ steps = 0
  /\ faults = 0
  /\ turns = <<>>
  /\ writes = {}
  /\ \E lead \in Leads, range \in SaidRanges, days \in SaidDays,
        amount \in SaidAmounts :
       last = [ op |-> "seed",
                said |-> [lead |-> lead, range |-> range, days |-> days,
                          amount |-> amount],
                m |-> Compose(lead, range, days, amount),
                parsed |-> EmptyObject ]

\* parseMessage(message)
Parse ==
  /\ last.op = "seed"
  /\ \E parsed \in {parseMessage(last.m)} :
       last' = [last EXCEPT !.op = "parse", !.parsed = parsed]
  /\ UNCHANGED <<build, raindropContext, kv, sessionStore, smartMemory,
                 track, steps, faults, turns, writes>>

NextParse == Parse

SpecParse == InitParse /\ [][NextParse]_vars

----------------------------------------------------------------------------
(* The chat turn on its own: turn applied to a session that starts new and *)
(* is carried from one turn to the next, without the storage tiers, for    *)
(* every kind of provider reply.  Here `last` holds the session before the *)
(* turn, the message, the reply and what the turn made of them.            *)

MaxTurns == 2

\* a JSON reply that reports the confidence 0
ReplyZero ==
  [ kind |-> "json",
    message |-> Str("Not sure I understood."),
    extractedFields |-> Obj([ startingCity |-> Str("delhi") ]),
    nextAction |-> Str("ask_question"),
    confidence |-> Num(0) ]

\* a JSON reply that reports the confidence 0.7
ReplyEdge ==
  [ kind |-> "json",
    message |-> Str("A budget of nine thousand, right?"),
    extractedFields |-> Obj([ totalBudget |-> Num(9000) ]),
    nextAction |-> Str("ask_question"),
    confidence |-> Num(70) ]

\* a JSON reply that reports the confidence 5
ReplyOver ==
  [ kind |-> "json",
    message |-> Str("Certainly from Delhi."),
    extractedFields |-> Obj([ startingCity |-> Str("delhi") ]),
    nextAction |-> Str("ask_question"),
    confidence |-> Num(500) ]

ProviderReplies == Replies \cup {ReplyZero, ReplyEdge, ReplyOver, ReplyBadDate}

NoOutcome ==
  [ threw |-> FALSE, response |-> NoResponse, ai |-> NoAI,
    merged |-> EmptyObject, after |-> NoSession ]

InitTurn ==
  /\ build \in {"src", "dist", "js"}
  /\ raindropContext = FALSE
  /\ kv = NoStore
  /\ sessionStore = NoStore
  /\ smartMemory = NoStore
  /\ track = [sid \in SessionIds |-> NoTrack]
  /\ steps = 0
  /\ faults = 0
  /\ turns = <<>>
  /\ writes = {}
  /\ last = [ op |-> "seed", session |-> newSession("s1"), m |-> MsgBlank,
              reply |-> Failure("nokey"), context |-> EmptyContext,
              out |-> NoOutcome ]

\* one chat turn on the session the turn before left (the session object
\* is changed in place before the response is put together, so it is left
\* changed also by a turn that throws)
Turn(m, reply) ==
  /\ steps < MaxTurns
  /\ \E session \in {IF last.op = "seed" THEN last.session ELSE last.out.after} :
     \E context \in {TurnContext(build, session)} :
     \E out \in {turn(build, session, context, m, reply)} :
       last' = [ op |-> "turn", session |-> session, m |-> m,
                 reply |-> reply, context |-> context, out |-> out ]
  /\ steps' = steps + 1
  /\ UNCHANGED <<build, raindropContext, kv, sessionStore, smartMemory,
                 track, faults, turns, writes>>

NextTurn == \E m \in Messages, reply \in ProviderReplies : Turn(m, reply)

SpecTurn == InitTurn /\ [][NextTurn]_vars

----------------------------------------------------------------------------
(* Concurrent chat calls.  chat is an async function: it runs without      *)
(* interruption from one await to the next, and at an await another call   *)
(* runs; so does the reset handler, which awaits initializeSession and     *)
(* then changes the session object it got.  A call is "chat" or "reset";   *)
(* it is at "new" (not made), "store" (the cache lookup                    *)
(* answered null), "memory" (the Map had no entry, the SmartMemory lookup   *)
(* is awaited), "asking" (the session is loaded, getAIResponse is awaited), *)
(* "done" (the response is returned) or "failed" (it threw).  A call holds  *)
(* either the object that is in the Map under its session id (alias) or an *)
(* object of its own.  persistSession is not awaited: its two storage      *)
(* writes are in `writes` until the store answers them.  A call that has   *)
(* returned keeps the session it persisted (after), its place in the order *)
(* of the persistSession calls (stamp) and whether another call on the     *)
(* same id had loaded its session and not yet persisted (overlap).         *)

RaceTurns == 2

RaceMessages == {MsgBudget, MsgFull}

RaceReplies == {Failure("network"), ReplyHigh}

NoTurn ==
  [ op |-> "chat", pc |-> "new", sessionId |-> "", m |-> MsgBlank,
    reply |-> Failure("nokey"), alias |-> FALSE, session |-> NoSession, context |-> EmptyContext,
    http |-> 0, response |-> NoResponse, after |-> NoSession, stamp |-> 0,
    overlap |-> FALSE ]

\* the session object a call holds
Mine(t) == IF t.alias THEN sessionStore[t.sessionId] ELSE t.session

\* chat-handler.ts:140-160: what the reset handler makes of the session
\* object initializeSession answered
Reset(session) ==
  [session EXCEPT !.checklist = ResetChecklist, !.history = <<>>,
                  !.hasHistory = TRUE]

\* the session object as the step that loaded it leaves it
Settled(t, session) == IF t.op = "reset" THEN Reset(session) ELSE session

\* once initializeSession has answered `session`.  chat.ts:343-351: the
\* context is built (session.history.slice throws without a history) and
\* getAIResponse is awaited.  Reset handler: the object is changed and
\* answered.
Asked(t, session, alias) ==
  IF t.op = "reset"
  THEN [t EXCEPT !.pc = "done", !.http = 200,
                 !.response = [NoResponse EXCEPT
                                 !.completeness = session.completeness,
                                 !.checklist = ResetChecklist]]
  ELSE IF ~session.hasHistory
  THEN [t EXCEPT !.pc = "failed", !.http = 500]
  ELSE [t EXCEPT !.pc = "asking", !.alias = alias,
                 !.session = IF alias THEN NoSession ELSE session,
                 !.context = TurnContext(build, session)]

\* sessionStore.set(sessionId, other object): the calls that hold the object
\* the Map held until now go on holding it
Detached(ts, i, sessionId) ==
  [j \in DOMAIN ts |->
     IF j # i /\ ts[j].pc = "asking" /\ ts[j].alias
        /\ ts[j].sessionId = sessionId
     THEN [ts[j] EXCEPT !.alias = FALSE, !.session = sessionStore[sessionId]]
     ELSE ts[j]]

\* initializeSession, lines 307-308: the cache lookup answers
LoadCache(i, op, sessionId, m, reply) ==
  /\ turns[i].pc = "new"
  /\ i > 1 => turns[i - 1].pc # "new"
  /\ \E t \in {[NoTurn EXCEPT !.op = op, !.sessionId = sessionId, !.m = m,
                                !.reply = reply]},
        hit \in {getSessionFromCache(raindropContext, kv, sessionId)} :
       turns' = [turns EXCEPT ![i] =
                   IF hit # <<>> THEN Asked(t, hit[1], FALSE)
                   ELSE [t EXCEPT !.pc = "store"]]
  /\ UNCHANGED <<build, raindropContext, kv, sessionStore, smartMemory,
                 last, track, steps, faults, writes>>

\* initializeSession, lines 311-315 and, without Raindrop, 324-334
LoadStore(i) ==
  /\ turns[i].pc = "store"
  /\ \E t \in {turns[i]} :
       IF t.sessionId \in DOMAIN sessionStore
       THEN /\ turns' = [turns EXCEPT ![i] =
                           Asked(t, sessionStore[t.sessionId], TRUE)]
            /\ sessionStore' =
                 Put(sessionStore, t.sessionId,
                     Settled(t, sessionStore[t.sessionId]))
       ELSE IF isRaindropReady(raindropContext)
       THEN /\ turns' = [turns EXCEPT ![i] = [t EXCEPT !.pc = "memory"]]
            /\ UNCHANGED sessionStore
       ELSE /\ turns' = [turns EXCEPT ![i] =
                           Asked(t, newSession(t.sessionId), TRUE)]
            /\ sessionStore' =
                 Put(sessionStore, t.sessionId,
                     Settled(t, newSession(t.sessionId)))
  /\ UNCHANGED <<build, raindropContext, kv, smartMemory, last, track,
                 steps, faults, writes>>

\* initializeSession, lines 316-334: the SmartMemory lookup answers; the
\* loaded or the new session is set in the Map without a second look at it
LoadMemory(i) ==
  /\ turns[i].pc = "memory"
  /\ \E t \in {turns[i]},
        loaded \in {loadSessionFromSmartMemory(raindropContext, smartMemory,
                                               turns[i].sessionId)} :
     \E session \in {IF loaded # <<>> THEN loaded[1]
                      ELSE newSession(t.sessionId)} :
       /\ sessionStore' = Put(sessionStore, t.sessionId, Settled(t, session))
       /\ turns' = [Detached(turns, i, t.sessionId) EXCEPT ![i] =
                      Asked(t, session, TRUE)]
  /\ UNCHANGED <<build, raindropContext, kv, smartMemory, last, track,
                 steps, faults, writes>>

\* a persistSession that gives up after the cache write: the SmartMemory
\* write is not issued
persistWritesCacheOnly(rc, i, session) ==
  IF ~rc THEN {}
  ELSE { [ turn |-> i, tier |-> "kv", sessionId |-> session.sessionId,
           value |-> JsonCopy(session) ] }

\* a persistSession whose storage keys leave out the session id
persistWritesOneKey(rc, i, session) ==
  IF ~rc THEN {}
  ELSE { [ turn |-> i, tier |-> tier, sessionId |-> "s1",
           value |-> JsonCopy(session) ] : tier \in {"kv", "memory"} }

\* persistSession, lines 564-577, up to its await: the writes it issues.
\* JSON.stringify and the context object are built when the call is made.
persistWrites(rc, i, session) ==
  IF ~rc THEN {}
  ELSE { [ turn |-> i, tier |-> "kv", sessionId |-> session.sessionId,
           value |-> cacheSession(rc, NoStore, session.sessionId, session,
                                  TRUE)[session.sessionId] ] }
       \cup
       (IF isRaindropReady(rc)
        THEN { [ turn |-> i, tier |-> "memory",
                 sessionId |-> session.sessionId,
                 value |-> saveSessionToSmartMemory(
                             rc, NoStore, session.sessionId, session,
                             TRUE)[session.sessionId] ] }
        ELSE {})

\* chat, lines 353-434: getAIResponse has answered; the session object is
\* changed, persistSession is called and not awaited, the response returned
Apply(i) ==
  /\ turns[i].pc = "asking"
  /\ \E t \in {turns[i]} :
     \E r \in {turn(build, Mine(t), t.context, t.m, t.reply)} :
       /\ sessionStore' =
            persistSession(raindropContext, kv, sessionStore, smartMemory,
                           r.after, TRUE, TRUE).sessionStore
       /\ turns' =
            [(IF t.alias THEN turns ELSE Detached(turns, i, t.sessionId))
               EXCEPT ![i] =
                 [t EXCEPT !.pc = "done", !.alias = FALSE,
                           !.session = NoSession,
                           !.http = IF r.threw THEN 500 ELSE 200,
                           !.response = r.response, !.after = r.after,
                           !.stamp = 1 + Cardinality(
                              {j \in DOMAIN turns : turns[j].stamp > 0}),
                           !.overlap =
                              \E j \in DOMAIN turns :
                                /\ j # i /\ turns[j].pc = "asking"
                                /\ turns[j].sessionId = t.sessionId]]
       /\ writes' = writes \cup persistWrites(raindropContext, i, r.after)
  /\ UNCHANGED <<build, raindropContext, kv, smartMemory, last, track,
                 steps, faults>>

\* the store answers a write: it is applied, or it fails and is logged
Complete(w, ok) ==
  /\ w \in writes
  /\ ok \/ faults < MaxFaults
  /\ kv' = IF ok /\ w.tier = "kv" THEN Put(kv, w.sessionId, w.value) ELSE kv
  /\ smartMemory' = IF ok /\ w.tier = "memory"
                    THEN Put(smartMemory, w.sessionId, w.value)
                    ELSE smartMemory
  /\ writes' = writes \ {w}
  /\ faults' = faults + (IF ok THEN 0 ELSE 1)
  /\ UNCHANGED <<build, raindropContext, sessionStore, last, track, steps,
                 turns>>

\* the tiers before the calls: empty, or as an earlier chat call on "s1"
\* left them, all its writes applied
Seeds(b, rc) ==
  { [kv |-> NoStore, sessionStore |-> NoStore, smartMemory |-> NoStore],
    chat(b, rc, NoStore, NoStore, NoStore, "s1", MsgBudget,
         Failure("network"), TRUE, TRUE) }

InitRace ==
  /\ build \in {"src", "dist"}
  /\ raindropContext \in BOOLEAN
  /\ \E seed \in Seeds(build, raindropContext) :
       /\ kv = seed.kv
       /\ sessionStore = seed.sessionStore
       /\ smartMemory = seed.smartMemory
  /\ last = NoLast
  /\ track = [sid \in SessionIds |-> NoTrack]
  /\ steps = 0
  /\ faults = 0
  /\ turns = [i \in 1..RaceTurns |-> NoTurn]
  /\ writes = {}

NextRace ==
  \/ \E i \in 1..RaceTurns, sessionId \in SessionIds, m \in RaceMessages,
        reply \in RaceReplies : LoadCache(i, "chat", sessionId, m, reply)
  \/ \E i \in 1..RaceTurns, sessionId \in SessionIds :
       LoadCache(i, "reset", sessionId, MsgBlank, Failure("nokey"))
  \/ \E i \in 1..RaceTurns : LoadStore(i)
  \/ \E i \in 1..RaceTurns : LoadMemory(i)
  \/ \E i \in 1..RaceTurns : Apply(i)
  \/ \E w \in writes, ok \in BOOLEAN : Complete(w, ok)

SpecRace == InitRace /\ [][NextRace]_vars

----------------------------------------------------------------------------
(* Claims about the chat turn *)

\* a value a checklist field holds: neither null nor undefined
Holds(checklist, k) == k \in DOMAIN checklist /\ NotNullish(checklist[k])

\* C1: first-write-wins.  In every chat turn, a field that held a value
\* before the turn and for which the merged extraction carries a different
\* value still holds the old value after the turn.
C1_FirstWriteWins ==
  (last.op = "chat" /\ last.http = 200) =>
    \A k \in DOMAIN last.merged :
      (/\ NotNullish(last.merged[k])
       /\ Holds(last.pre.checklist, k)
       /\ last.merged[k] # last.pre.checklist[k])
        => last.response.checklist[k] = last.pre.checklist[k]

\* C2: fields only move from absent to present.  A field present in the
\* checklist an earlier turn of the session returned is present in the
\* checklist every later turn returns, as long as the session is not reset.
C2_FieldsStayPresent ==
  (last.op = "chat" /\ last.http = 200 /\ last.prev.response # NoResponse) =>
    \A k \in DOMAIN last.prev.response.checklist :
      Holds(last.prev.response.checklist, k) => Holds(last.response.checklist, k)

\* C3: fallback resilience.  While the provider fails in every turn of a
\* session, every turn returns a response and the completeness it returns
\* is at least the completeness the previous turn returned.
C3_FallbackResilience ==
  (last.op = "chat" /\ last.engine /\ last.prev.failing
     /\ last.reply.kind # "json") =>
    /\ last.http = 200
    /\ last.prev.response # NoResponse =>
         last.response.completeness >= last.prev.response.completeness

\* the travelDays a checklist holds, 3 when it holds none
DaysWanted(checklist) ==
  IF Holds(checklist, "travelDays") /\ checklist["travelDays"].t = "num"
  THEN checklist["travelDays"].n ELSE DefaultDays

\* C5: generation trigger.  A turn whose completeness reaches the threshold
\* and whose responder says generate_itinerary returns an itinerary with as
\* many days as travelDays (3 without) and four breakdown amounts >= 0.
C5_GenerationTrigger ==
  (/\ last.op = "chat" /\ last.http = 200
   /\ last.response.completeness >= GenerationThreshold
   /\ last.ai.nextAction = "generate_itinerary") =>
    /\ last.response.itinerary.present
    /\ Len(last.response.itinerary.days) = DaysWanted(last.response.checklist)
    /\ last.response.itinerary.budgetBreakdown.accommodation >= 0
    /\ last.response.itinerary.budgetBreakdown.food >= 0
    /\ last.response.itinerary.budgetBreakdown.activities >= 0
    /\ last.response.itinerary.budgetBreakdown.transport >= 0

\* a session as a reset should leave it: nothing counted, nothing said,
\* no field holding a value
Cleared(session) ==
  /\ session.completeness = 0
  /\ session.history = <<>>
  /\ \A k \in DOMAIN session.checklist : ~Filled(session.checklist[k])

\* C6: reset.  The session the reset answers with, and the session a fetch
\* of that id shows afterwards, has completeness 0, no history and an empty
\* checklist, whatever the session was and whatever tier it came from.
C6_ResetClears ==
  /\ last.op = "reset" => Cleared(last.response)
  /\ (last.op = "get" /\ last.http = 200 /\ last.prev.afterReset)
       => Cleared(last.response)

\* C8: completeness is a percentage.  The completeness a request answers
\* with and the completeness of every stored session is in 0..100.
C8_CompletenessRange ==
  /\ last.response.completeness \in 0..100
  /\ \A sid \in DOMAIN sessionStore : sessionStore[sid].completeness \in 0..100
  /\ \A sid \in DOMAIN kv : kv[sid].completeness \in 0..100
  /\ \A sid \in DOMAIN smartMemory : smartMemory[sid].completeness \in 0..100

\* what a tier holds for a session id, <<>> when it holds nothing
Held(store, sid) == IF sid \in DOMAIN store THEN <<store[sid]>> ELSE <<>>

\* C9: per-turn atomicity.  After a chat turn that ended in an exception,
\* every tier holds for that session id what it held before the turn.
C9_TurnAtomicity ==
  (last.op = "chat" /\ last.http = 500) =>
    /\ Held(sessionStore, last.sessionId.s) = Held(last.before[2], last.sessionId.s)
    /\ Held(kv, last.sessionId.s) = Held(last.before[1], last.sessionId.s)
    /\ Held(smartMemory, last.sessionId.s) = Held(last.before[3], last.sessionId.s)

\* a request member that is missing or blank (empty or only white space)
Blank(v) == v.t = "undefined" \/ (v.t = "str" /\ v.s \in {"", "   "})

\* C10: input validation.  A chat request whose sessionId or message is
\* missing or blank is answered 400 and the engine is not run for it: no
\* session is created or loaded and no tier changes.
C10_BlankRejected ==
  (last.op = "chat" /\ (Blank(last.sessionId) \/ Blank(last.message))) =>
    /\ last.http = 400
    /\ ~last.engine
    /\ <<kv, sessionStore, smartMemory>> = last.before

\* the synthesizer throws on this checklist: its startDate is no date and
\* at least one day is to be built (toISOString of an Invalid Date)
SynthesisThrows(checklist) ==
  /\ Truthy(Get(checklist, "startDate"))
  /\ NewDate(Get(checklist, "startDate")) = <<>>
  /\ ToLength(OrElse(Get(checklist, "travelDays"), Num(DefaultDays))) > 0

\* C11: synthesis failure is contained.  When a turn reaches the synthesizer
\* (completeness at the threshold, the responder saying generate_itinerary
\* with a text message) and the synthesizer throws, the turn answers 200
\* without an itinerary, the user and the assistant message are appended to
\* the history, and the completeness is the one of the updated checklist,
\* in the response and in the stored session.
C11_SynthesisContained ==
  (/\ last.op = "chat" /\ last.engine /\ last.ai.message.t = "str"
   /\ last.ai.nextAction = "generate_itinerary"
   /\ calculateCompleteness(build, last.response.checklist) >= GenerationThreshold
   /\ SynthesisThrows(last.response.checklist)) =>
    /\ last.http = 200
    /\ ~last.response.itinerary.present
    /\ Len(last.response.history) = Len(last.pre.history) + 2
    /\ SubSeq(last.response.history, 1, Len(last.pre.history)) = last.pre.history
    /\ last.response.history[Len(last.pre.history) + 1].role = "user"
    /\ last.response.history[Len(last.pre.history) + 1].content = last.message
    /\ last.response.history[Len(last.pre.history) + 2].role = "assistant"
    /\ last.response.completeness
         = calculateCompleteness(build, last.response.checklist)
    /\ sessionStore[last.sessionId.s].history = last.response.history
    /\ sessionStore[last.sessionId.s].completeness = last.response.completeness

\* a turn in which the synthesizer threw and the response was returned
C11_Witness ==
  /\ last.op = "chat" /\ last.http = 200
  /\ last.ai.nextAction = "generate_itinerary"
  /\ last.response.completeness >= GenerationThreshold
  /\ SynthesisThrows(last.response.checklist)
  /\ ~last.response.itinerary.present
  /\ Len(last.response.history) >= 2

\* a value conforms to the type of its field in TripChecklist
Conforms(field, v) ==
  CASE field \in {"travelDays", "totalBudget"} -> v.t = "num" /\ v.n > 0
    [] field \in {"avoidPlaces", "visitedPlaces"} -> v.t = "arr"
    [] Enumeration(field) # {} -> v.t = "str" /\ v.s \in Enumeration(field)
    [] OTHER -> v.t = "str"

\* C15: checklist type invariant.  In the checklist a chat turn returns
\* and in the one every tier stores, each field of TripChecklist is absent
\* or holds a value of its type: travelDays and totalBudget a positive
\* number, a categorical field a member of its enumeration, a place list a
\* list, whatever the parser and the responder extracted.
C15_ChecklistTyped ==
  /\ (last.op = "chat" /\ last.http = 200) =>
       \A k \in Range(CHECKLIST_FIELDS) :
         Holds(last.response.checklist, k)
           => Conforms(k, last.response.checklist[k])
  /\ \A sid \in DOMAIN sessionStore :
       \A k \in Range(CHECKLIST_FIELDS) :
         Holds(sessionStore[sid].checklist, k)
           => Conforms(k, sessionStore[sid].checklist[k])

----------------------------------------------------------------------------
(* Claims about the pure functions, under SpecPure *)

\* C4: getAIResponse falls back to the mock for its own context.  For a
\* network error, a non-2xx status, an empty content and a text without a
\* JSON object it returns what getMockAIResponse returns for the message
\* and the context it was called with.
C4_FallbackForContext ==
  (last.op = "respond"
     /\ last.reply.kind \in {"network", "non2xx", "empty", "nojson"}) =>
    last.ai = getMockAIResponse(build, last.text, last.context)

\* the fields calculateCompleteness counts
Counted(b) ==
  IF b = "dist" THEN Range(CRITICAL_FIELDS) ELSE Range(CHECKLIST_FIELDS)

\* C7: calculateCompleteness does not decrease when one more counted field
\* is filled, and it is 100 exactly when every counted field is non-empty,
\* where the empty string, null and the zero-length list are empty.
C7_CompletenessOfFilling ==
  /\ last.op = "fill" =>
       calculateCompleteness(build, last.checklist)
         >= calculateCompleteness(build, last.was)
  /\ calculateCompleteness(build, last.checklist) = 100
       <=> \A f \in Counted(build) : ~EmptyValue(Get(last.checklist, f))

----------------------------------------------------------------------------
(* Claims about concurrent chat calls, under SpecRace *)

\* the writes of call i that a step issues
Issued(i) == {w \in writes' \ writes : w.turn = i}

\* C12: end-of-turn persistence is attempt-all and non-blocking.  The step
\* in which chat returns its response issues the cache write and the
\* SmartMemory write together and leaves both in flight; when the store
\* answers one of them, with success or with a failure, the other stays in
\* flight, a successful one lands its value, and the call that returned is
\* not changed by it: its status and its response stay what they were.
C12_PersistenceDetached ==
  [][ /\ \A i \in DOMAIN turns :
           (turns[i].pc = "asking" /\ turns'[i].pc = "done") =>
             /\ turns'[i].http = 200
             /\ raindropContext =>
                  /\ {w.tier : w \in Issued(i)} = {"kv", "memory"}
                  /\ \A w \in Issued(i) : w.sessionId = turns[i].sessionId
                  /\ <<kv', smartMemory'>> = <<kv, smartMemory>>
      /\ \A i \in DOMAIN turns :
           turns[i].pc = "done" => turns'[i] = turns[i]
      /\ \A w \in writes \ writes' :
           /\ writes' = writes \ {w}
           /\ (faults' = faults /\ w.tier = "kv") => kv'[w.sessionId] = w.value
           /\ (faults' = faults /\ w.tier = "memory")
                => smartMemory'[w.sessionId] = w.value
    ]_vars

\* a call has returned 200; afterwards its cache write failed and its
\* SmartMemory write landed
C12_Witness ==
  \E i \in DOMAIN turns :
    /\ turns[i].pc = "done" /\ turns[i].http = 200
    /\ raindropContext /\ faults = 1
    /\ \A w \in writes : w.turn # i
    /\ turns[i].sessionId \notin DOMAIN kv
    /\ turns[i].sessionId \in DOMAIN smartMemory
    /\ smartMemory[turns[i].sessionId].checklist = turns[i].after.checklist

\* a step is made by a call on session id sid, or by the store answering
\* a write that such a call issued
Touched(sid) ==
  \/ \E i \in DOMAIN turns :
       turns'[i] # turns[i] /\ turns'[i].sessionId = sid
  \/ \E w \in writes \ writes' : turns[w.turn].sessionId = sid

\* C13: cross-session isolation.  In every interleaving of chat calls and
\* resets on two session ids, a step made for one id leaves what every tier
\* holds for the other id (checklist, history, completeness) and every
\* call in progress on the other id unchanged; in particular the sessions
\* created for two ids are changed independently of each other.
C13_CrossSessionIsolation ==
  [][ \A sid \in SessionIds :
        ~Touched(sid) =>
          /\ Held(sessionStore', sid) = Held(sessionStore, sid)
          /\ Held(kv', sid) = Held(kv, sid)
          /\ Held(smartMemory', sid) = Held(smartMemory, sid)
          /\ \A w \in writes' \ writes : w.sessionId # sid
    ]_vars

\* both session ids have been chatted with, one call each, and the Map
\* holds a different checklist for each
C13_Witness ==
  /\ turns[1].pc = "done" /\ turns[2].pc = "done"
  /\ turns[1].op = "chat" /\ turns[2].op = "chat"
  /\ turns[1].sessionId # turns[2].sessionId
  /\ SessionIds \subseteq DOMAIN sessionStore
  /\ sessionStore["s1"].checklist # sessionStore["   "].checklist
  /\ sessionStore["s1"].history # <<>>
  /\ sessionStore["   "].history # <<>>

\* two chat calls on session id sid have both loaded the session before
\* either persisted, and both are over
Raced(sid) ==
  /\ \A i \in DOMAIN turns :
       /\ turns[i].op = "chat" /\ turns[i].sessionId = sid
       /\ turns[i].pc = "done"
  /\ \E i \in DOMAIN turns : turns[i].overlap

\* the call that called persistSession last
LastWriter ==
  CHOOSE i \in DOMAIN turns :
    \A j \in DOMAIN turns : turns[j].stamp <= turns[i].stamp

\* the sessions the calls persisted, as a tier stores them
Written(tier) ==
  { IF tier = "kv" THEN JsonCopy(turns[i].after)
    ELSE saveSessionToSmartMemory(TRUE, NoStore, turns[i].sessionId,
                                  turns[i].after, TRUE)[turns[i].sessionId] :
      i \in {j \in DOMAIN turns : turns[j].pc = "done"} }

\* C14: same-session race.  When two chat calls on one session id have
\* both loaded the session before either persisted, then once both have
\* returned the Map holds the session of the call that persisted last, and
\* the cache and SmartMemory hold nothing for that id but a session one of
\* the two calls wrote or the one that was there before them.
C14_LastWriterWins ==
  \A sid \in SessionIds :
    Raced(sid) =>
      /\ sessionStore[sid] = turns[LastWriter].after
      /\ sid \in DOMAIN kv =>
           \/ kv[sid] \in Written("kv")
           \/ \E seed \in Seeds(build, raindropContext) :
                Held(seed.kv, sid) = <<kv[sid]>>
      /\ sid \in DOMAIN smartMemory =>
           \/ smartMemory[sid] \in Written("memory")
           \/ \E seed \in Seeds(build, raindropContext) :
                Held(seed.smartMemory, sid) = <<smartMemory[sid]>>

\* two calls raced on a session that existed, each from its own copy out of
\* the cache; the later one overwrote what the earlier one had persisted,
\* and every write has been answered
C14_Witness ==
  /\ Raced("s1") /\ raindropContext /\ writes = {}
  /\ turns[1].after # turns[2].after
  /\ turns[1].after.checklist # turns[2].after.checklist
  /\ Len(sessionStore["s1"].history) = 4
  /\ "s1" \in DOMAIN kv

----------------------------------------------------------------------------
(* Claims about itinerary synthesis, under SpecItinerary *)

\* C16: for every totalBudget, the four amounts of the itinerary's budget
\* breakdown (the independently rounded 40%, 30%, 20% and 10% shares) add up
\* to at most totalBudget.
C16_BreakdownWithinBudget ==
  (last.op = "itinerary" /\ last.itinerary.present)
    => LET parts == last.itinerary.budgetBreakdown
       IN  parts.accommodation + parts.food + parts.activities
             + parts.transport <= last.checklist["totalBudget"].n

----------------------------------------------------------------------------
(* Claims about the fallback responder, under SpecPure *)

\* the provider calls that end in getMockAIResponse(userMessage, context)
MockKinds == {"nokey", "network", "non2xx", "empty"}

\* a context in which `field` is the one field that is absent
Lacking(field) ==
  [ EmptyContext EXCEPT
      !.missingFields = <<field>>,
      !.currentChecklist =
        [k \in Range(CHECKLIST_FIELDS) |->
           IF k = field THEN Null ELSE Sample(k)] ]

\* the message is the build's question about `field`; "" stands for no field
AsksAbout(b, message, field) ==
  message =
    getMockAIResponse(b, "", IF field = "" THEN
                               [Lacking("") EXCEPT !.missingFields = <<>>]
                             ELSE Lacking(field)).message

\* C17: when completeness is below the generation threshold, the fallback
\* responder asks about the first field of the priority order (startingCity,
\* totalBudget, groupType, tripTheme, startDate, travelDays, ...) that is
\* absent from the checklist, or asks the open-ended follow-up when none is
\* absent; nextAction is ask_question and extractedFields is empty.
C17_QuestionOrder ==
  ( /\ last.op = "respond"
    /\ last.reply.kind \in MockKinds
    /\ last.context.completenessPercentage < GenerationThreshold )
    => /\ AsksAbout(build, last.ai.message,
                    FindMissing(PRIORITY_QUESTIONS, last.checklist))
       /\ last.ai.nextAction = "ask_question"
       /\ last.ai.extractedFields = EmptyObject

\* C18: one generation threshold.  For every completeness value the
\* completeness function returns, the fallback responder answers
\* nextAction = generate_itinerary with no extracted fields whenever the
\* value meets the threshold by which chat gates the synthesis and reports
\* the status 'complete'.
C18_OneThreshold ==
  ( /\ last.op = "respond"
    /\ last.reply.kind \in MockKinds
    /\ calculateCompleteness(build, last.checklist) >= GenerationThreshold )
    => /\ last.ai.nextAction = "generate_itinerary"
       /\ last.ai.extractedFields = EmptyObject

----------------------------------------------------------------------------
(* Claims about the rule-based parser, under SpecParse *)

\* the amount a message states: its number times what its unit stands for
Stated(amount) ==
  CASE amount[2] = "lakh" -> amount[1] * 100000
    [] amount[2] = "k" -> amount[1] * 1000
    [] OTHER -> amount[1]

\* C19: the budget patterns are tried in priority order (lakh, k, rs, bare
\* number) and the first that matches alone gives totalBudget, from the
\* number attached to its unit: "15k" gives 15000 and "3 lakh" 300000, also
\* when an unrelated number (a day count, a date) comes earlier in the
\* message.  A bare number is the amount when it is the only number.
C19_BudgetByUnit ==
  ( /\ last.op = "parse"
    /\ last.said.amount # <<>>
    /\ last.said.amount[2] = "" => (last.said.range = <<>> /\ last.said.days = <<>>) )
    => last.parsed.totalBudget = Num(Stated(last.said.amount))

\* C20: for a message with a range "D1 to D2 Month", startDate is day D1 and
\* endDate is day D2 of the stated month of the current year, both as
\* YYYY-MM-DD, whatever other words the message contains.
C20_RangeInStatedMonth ==
  (last.op = "parse" /\ last.said.range # <<>>)
    => LET D1 == last.said.range[1]
           D2 == last.said.range[2]
           month == last.said.range[3]
       IN  /\ last.parsed.startDate = Str(IsoString(Today[1], month, D1))
           /\ last.parsed.endDate = Str(IsoString(Today[1], month, D2))

----------------------------------------------------------------------------
(* Claims about the chat turn on its own, under SpecTurn *)

\* the non-null fields of `fields` laid over `base`
Overlaid(base, fields) ==
  [k \in (DOMAIN base) \cup {f \in DOMAIN fields : NotNullish(fields[f])} |->
     IF k \in DOMAIN fields /\ NotNullish(fields[k]) THEN fields[k]
     ELSE base[k]]

\* C21: the merged update of a turn is the rule-based parser's result with
\* every non-null AI-extracted field laid over it (the AI value winning)
\* when the responder's confidence is strictly greater than 0.7, and is
\* exactly the rule-based result when the confidence is 0.7 or less.
C21_MergePolicy ==
  last.op = "turn" =>
    LET nlp == parseMessage(last.m)
        ai == last.out.ai
    IN  /\ ai.confidence > 70
             => last.out.merged = Overlaid(nlp, ai.extractedFields)
        /\ ai.confidence <= 70 => last.out.merged = nlp
        /\ last.out.after.history[Len(last.out.after.history) - 1]
             .extractedFields = last.out.merged

\* a turn at confidence 0.9 in which the AI's totalBudget replaced the
\* parser's, after a turn at confidence exactly 0.7 in which the AI's
\* totalBudget was left out
C21_Witness ==
  /\ last.op = "turn" /\ last.reply = ReplyHigh /\ last.m = MsgBudget
  /\ parseMessage(last.m).totalBudget = Num(15000)
  /\ last.out.merged.totalBudget = Num(-5000)
  /\ Len(last.session.history) = 2
  /\ last.session.history[1].extractedFields.totalBudget = Num(15000)
  /\ last.session.history[2].content = ReplyEdge.message

\* C22: when the provider's JSON reply reports a confidence of 0.7 or less
\* (0 included), none of the reply's extractedFields reaches the checklist
\* in that turn; and the confidence the merge uses and the response returns
\* is the reported one and lies between 0 and 1.
C22_LowConfidenceIgnored ==
  ( /\ last.op = "turn"
    /\ last.reply.kind = "json"
    /\ last.reply.message.t = "str"
    /\ last.reply.confidence.t = "num" )
    => /\ last.reply.confidence.n <= 70
            => /\ last.out.merged = parseMessage(last.m)
               /\ last.out.after.checklist =
                    UpdateChecklist(last.session.checklist, parseMessage(last.m))
       /\ last.out.ai.confidence = last.reply.confidence.n
       /\ last.out.response.confidence = last.reply.confidence.n
       /\ last.out.response.confidence \in 0..100

----------------------------------------------------------------------------
(* Claims about the refine pass, under SpecPure *)

\* C23: refineChecklistWithAI leaves every field the checklist already
\* holds (any value that is not absent, the number 0 included) as it is,
\* and fills the absent fields, and only those, from the non-null
\* extracted values.  Null, undefined and the empty string are absent.
C23_RefineConservative ==
  last.op = "refine" =>
    \A k \in (DOMAIN last.was) \cup Given(last.ai.extractedFields) :
      last.checklist[k] =
        IF NotNullish(Get(last.was, k)) /\ last.was[k] # Str("")
        THEN last.was[k]
        ELSE IF k \in Given(last.ai.extractedFields)
             THEN last.ai.extractedFields[k]
        ELSE last.was[k]

----------------------------------------------------------------------------
(* Claims about the conversation over several requests, under Spec *)

\* user, assistant, user, assistant, ...
Alternates(history) ==
  /\ Len(history) % 2 = 0
  /\ \A i \in 1..Len(history) :
       history[i].role = IF i % 2 = 1 THEN "user" ELSE "assistant"

\* C24: a successful chat turn appends exactly two entries to the history of
\* the session it loaded, the user message with the turn's merged fields
\* and then the assistant message, and changes no earlier entry; every
\* stored history has even length and alternates user and assistant,
\* starting with user; a new session has an empty history.
C24_HistoryDiscipline ==
  /\ (last.op = "chat" /\ last.http = 200)
       => LET before == last.pre.history
              after == last.response.history
              n == Len(before)
          IN  /\ Len(after) = n + 2
              /\ SubSeq(after, 1, n) = before
              /\ after[n + 1].role = "user"
              /\ after[n + 1].content = last.message
              /\ after[n + 1].extractedFields = last.merged
              /\ after[n + 2].role = "assistant"
              /\ last.source = "new" => n = 0
  /\ \A sid \in DOMAIN sessionStore :
       sessionStore[sid].hasHistory => Alternates(sessionStore[sid].history)
  /\ \A sid \in DOMAIN kv : Alternates(kv[sid].history)

\* the second successful turn of a session, loaded from the cache tier,
\* with the two entries of the first turn kept and two more appended
C24_Witness ==
  /\ last.op = "chat" /\ last.http = 200 /\ last.source = "cache"
  /\ Len(last.pre.history) = 2
  /\ Len(last.response.history) = 4
  /\ last.response.history[3].extractedFields = last.merged
  /\ \E k \in DOMAIN last.merged : NotNullish(last.merged[k])
  /\ Len(sessionStore[last.sessionId.s].history) = 4

\* C25: once a turn of a session has returned an itinerary, the session is
\* in support mode: on every later turn (no reset in between) the context
\* tells the responder that the itinerary was generated, the fallback
\* responder answers with nextAction = ask_question, and the itinerary is
\* not generated again.
C25_SupportMode ==
  ( /\ last.op = "chat" /\ last.http = 200
    /\ last.reply.kind \in MockKinds
    /\ last.prev.turns > 0 /\ ~last.prev.afterReset
    /\ last.prev.response.itinerary.present )
    => /\ Truthy(last.context.itineraryGenerated)
       /\ last.ai.nextAction = "ask_question"
       /\ ~last.response.itinerary.present

----------------------------------------------------------------------------
(* Claims about the days of the itinerary, under SpecItinerary *)

\* C26: for every travelDays n >= 1 the itinerary has exactly n day
\* entries numbered 1..n, dated on consecutive days from startDate; the
\* first day has the arrival block, the last day is themed "Departure",
\* and every other day is themed with the capitalized tripTheme followed by
\* " Activities".
C26_DayStructure ==
  ( /\ last.op = "itinerary"
    /\ last.checklist["travelDays"] # Null
    /\ last.checklist["tripTheme"] # Null
    /\ last.checklist["startDate"] # Null )
    => LET n == last.checklist["travelDays"].n
           days == last.itinerary.days
           first == CHOOSE p \in DateTable :
                      p[1] = last.checklist["startDate"].s
       IN  /\ last.itinerary.present
           /\ Len(days) = n
           /\ \A i \in 1..n :
                /\ days[i].day = i
                /\ days[i].date = DateString(AddDays(first[2], i - 1))
                /\ days[i].theme =
                     "Day " \o ToString(i) \o ": " \o
                       (IF i = n THEN "Departure"
                        ELSE IF i = 1 THEN "Arrival & Settling In"
                        ELSE "Beach Activities")
           /\ days[1].blocks[1] = "Arrive & Check-in"

----------------------------------------------------------------------------
(* Further claims about the rule-based parser, under SpecParse *)

\* C27: every totalBudget that parseMessage produces, by whichever budget
\* pattern, is greater than 0 and less than 10,000,000; a number outside
\* that bound gives no totalBudget.
C27_BudgetBound ==
  (last.op = "parse" /\ last.parsed.totalBudget # Null)
    => /\ last.parsed.totalBudget.n > 0
       /\ last.parsed.totalBudget.n < 10000000

----------------------------------------------------------------------------
(* Claims about the stored sessions, under Spec *)

\* C28: between requests, the completeness field of every stored session
\* is calculateCompleteness of that session's checklist: after the session
\* is created, after every chat turn and after a reset.
C28_StoredCompleteness ==
  /\ \A sid \in DOMAIN sessionStore :
       sessionStore[sid].completeness =
         calculateCompleteness(build, sessionStore[sid].checklist)
  /\ \A sid \in DOMAIN kv :
       kv[sid].completeness = calculateCompleteness(build, kv[sid].checklist)

\* C29: read-your-writes.  After a chat turn of a session has returned,
\* the next chat turn or session fetch for that id (no reset and no restart
\* in between) loads a session that has every history entry and every
\* checklist field of that turn's response, also when the turn's cache
\* write failed and the cache tier still holds an older copy.
C29_ReadYourWrites ==
  ( /\ last.op \in {"chat", "get"} /\ last.source # ""
    /\ last.prev.turns > 0 /\ ~last.prev.afterReset
    /\ last.prev.response # NoResponse )
    => LET wrote == last.prev.response
           loaded == last.pre
       IN  /\ Len(loaded.history) >= Len(wrote.history)
           /\ \A i \in 1..Len(wrote.history) :
                /\ loaded.history[i].role = wrote.history[i].role
                /\ loaded.history[i].content = wrote.history[i].content
           /\ \A k \in DOMAIN wrote.checklist :
                Holds(wrote.checklist, k) => Holds(loaded.checklist, k)

\* C30: one-turn lag under the fallback responder.  A turn answered by the
\* fallback responder returns an itinerary only if completeness met the
\* threshold before the turn; a turn whose own extraction first lifts
\* completeness to the threshold returns the status 'complete' and no
\* itinerary; and the next turn of that session returns the itinerary.
C30_GenerationLag ==
  ( /\ last.op = "chat" /\ last.http = 200
    /\ last.reply.kind \in MockKinds )
    => LET before == calculateCompleteness(build, last.pre.checklist)
       IN  /\ last.response.itinerary.present => before >= GenerationThreshold
           /\ ( before < GenerationThreshold
                /\ last.response.completeness >= GenerationThreshold )
                => /\ last.response.status = "complete"
                   /\ ~last.response.itinerary.present
           /\ ( /\ last.prev.turns > 0 /\ ~last.prev.afterReset
                /\ last.prev.failing
                /\ last.prev.response.status = "complete"
                /\ ~last.prev.response.itinerary.present )
                => last.response.itinerary.present

====
